---------------------------- MODULE Spec2Model ----------------------------
(***************************************************************************)
(* Model of the vectordb engine (Le-Stef/vectordb): the filter evaluator   *)
(* (src/src/filter.rs), the collection (src/src/collection.rs), the IVF    *)
(* index and its k-means trainer (src/src/ivf.rs, src/src/kmeans.rs), the  *)
(* distance kernel (src/src/distance.rs), the store                        *)
(* (src/src/storage.rs) and the caching client (src/src/client.rs).        *)
(*                                                                         *)
(* Encodings.  Option<T>: None is [some |-> FALSE], Some(x) is             *)
(* [some |-> TRUE, v |-> x].  A MetadataValue is [tag, val] where tag is   *)
(* the enum variant and val the payload, interned as an integer.  A        *)
(* HashMap is a function on its key set.  An f32 is a fixed-point integer  *)
(* counting units of 1/Scale.  Result<T>: [ok |-> TRUE, ...] or            *)
(* [ok |-> FALSE, err |-> <kind>].                                         *)
(***************************************************************************)
EXTENDS Integers, Sequences, FiniteSets, TLC

VARIABLES
    fmeta,      \* filter evaluation: the metadata map given to matches_filter
    ffilter,    \* filter evaluation: the WhereFilter given to matches_filter
    fresult,    \* filter evaluation: None, or Some(the boolean returned)
    index,      \* one IVFIndex, used through its own operations
    iop,        \* the last operation on index, its argument and the data of
                \* the last build (history, not program state)
    kmeans,     \* one KMeans and the call of fit in progress on it
    coll,       \* one Collection, used through its own operations
    cin,        \* the inputs that collection is driven with (fixed by Init)
    cop,        \* the last operation on coll and what it returned (history,
                \* not program state)
    cache,      \* client: VectorDbClient.collections, name -> CachedCollection
    files,      \* client: what the store holds, name -> contents of data.bin
    clock,      \* client: what now() returns
    max_cached, \* client: VectorDbClient.max_cached
    ret,        \* client: the last call and what it returned (history, not
                \* program state)
    lock,       \* threads: the RwLock around VectorDbClient.collections
    thr,        \* threads: each thread's call in progress and its position
    produced,   \* threads: name -> the vectors the most recent
                \* with_collection_mut on it left (history, not program state)
    log         \* scenario S6: the names accessed so far, in order (history,
                \* not program state)

\* The filter evaluation, the index and the trainer on their own.
fvars == <<fmeta, ffilter, fresult, index, iop, kmeans>>
cvars == <<coll, cin, cop>>

kvars == <<cache, files, clock, max_cached, ret>>

tvars == <<lock, thr, produced, log>>

vars == <<fmeta, ffilter, fresult, index, iop, kmeans, coll, cin, cop, cache, files, clock, max_cached, ret,
          lock, thr, produced, log>>

None == [some |-> FALSE]
Some(x) == [some |-> TRUE, v |-> x]

EmptyMap == [k \in {} |-> 0]

\* The function f itself, held as the table of its values rather than as the
\* expression that defines it (a value used many times is computed once).
Table(f) == f @@ EmptyMap

(***************************************************************************)
(* vector.rs: MetadataValue, with the derived PartialEq (tag and payload). *)
(***************************************************************************)
MV(t, p) == [tag |-> t, val |-> p]

MVEq(a, b) == a.tag = b.tag /\ a.val = b.val

\* Vec<MetadataValue>::contains
Contains(list, val) == \E i \in 1..Len(list) : MVEq(list[i], val)

(***************************************************************************)
(* filter.rs: FilterValue, FilterOperator, matches_filter.                 *)
(***************************************************************************)
Direct(expected) == [kind |-> "Direct", expected |-> expected]

Operator(ne, in_values, nin) ==
    [kind |-> "Operator", ne |-> ne, in_values |-> in_values, nin |-> nin]

\* HashMap::get
MapGet(map, key) == IF key \in DOMAIN map THEN Some(map[key]) ELSE None

\* FieldContinues with the absent field rejected by $nin as it is by $in.
FieldContinuesNinPresent(meta_val, filter_value) ==
    IF filter_value.kind = "Direct"
    THEN meta_val.some /\ MVEq(meta_val.v, filter_value.expected)
    ELSE IF filter_value.ne.some
         THEN meta_val.some /\ ~MVEq(meta_val.v, filter_value.ne.v)
         ELSE IF filter_value.in_values.some
              THEN meta_val.some /\ Contains(filter_value.in_values.v, meta_val.v)
              ELSE IF filter_value.nin.some
                   THEN meta_val.some /\ ~Contains(filter_value.nin.v, meta_val.v)
                   ELSE TRUE

\* The body of the loop of matches_filter for one (key, filter_value):
\* TRUE when the iteration ends in `continue` (or falls off the end of the
\* match arm), FALSE when it ends in `return false`.
FieldContinues(meta_val, filter_value) ==
    IF filter_value.kind = "Direct"
    THEN meta_val.some /\ MVEq(meta_val.v, filter_value.expected)
    ELSE IF filter_value.ne.some
         THEN \* Some(val) if val == ne_val => return false; None => return
              \* false; _ => continue
              meta_val.some /\ ~MVEq(meta_val.v, filter_value.ne.v)
         ELSE IF filter_value.in_values.some
              THEN \* Some(val) if in_vals.contains(val) => continue;
                   \* _ => return false
                   meta_val.some /\ Contains(filter_value.in_values.v, meta_val.v)
              ELSE IF filter_value.nin.some
                   THEN ~(meta_val.some /\ Contains(filter_value.nin.v, meta_val.v))
                   ELSE TRUE

\* The loop returns false as soon as one iteration does, true after the last:
\* whatever order the HashMap yields the fields in, the result is the
\* conjunction over the fields.
matches_filter(metadata, filter) ==
    \A key \in DOMAIN filter : FieldContinues(MapGet(metadata, key), filter[key])

(***************************************************************************)
(* Arithmetic.  An f32 is modelled in fixed point: the integer x stands    *)
(* for x/Scale, a product of two such numbers for x/Scale^2.               *)
(***************************************************************************)
Scale == 10

Min2(a, b) == IF a < b THEN a ELSE b
Max2(a, b) == IF a > b THEN a ELSE b

SetMin(S) == CHOOSE x \in S : \A y \in S : x <= y
SetMax(S) == CHOOSE x \in S : \A y \in S : x >= y

\* Division rounding toward zero.
Quot(a, b) == IF a >= 0 THEN a \div b ELSE -((-a) \div b)

\* Sum of f[lo..hi], by halves (the depth stays logarithmic).
RECURSIVE RangeSum(_, _, _)
RangeSum(f, lo, hi) ==
    IF lo > hi THEN 0
    ELSE IF lo = hi THEN f[lo]
    ELSE LET mid == (lo + hi) \div 2
         IN  RangeSum(f, lo, mid) + RangeSum(f, mid + 1, hi)

\* f32::sqrt on a value in units 1/Scale^2, giving units 1/Scale.
RECURSIVE SqrtFrom(_, _)
SqrtFrom(n, r) == IF (r + 1) * (r + 1) > n THEN r ELSE SqrtFrom(n, r + 1)

Sqrt(n) == SqrtFrom(n, 0)

\* The element of a set of one element.  In The({e : x \in {v}}) the value
\* v is computed once, however often e uses x.
The(S) == CHOOSE x \in S : TRUE

\* The place of each element in the stable sort by keys: behind the
\* elements of smaller key and those of equal key that come before it.
Ranks(keys) ==
    The({Table([i \in 1..Len(k) |->
                   Cardinality({j \in 1..Len(k) :
                       \/ k[j] < k[i]
                       \/ k[j] = k[i] /\ j < i}) + 1]) : k \in {keys}})

\* slice::sort_by on the comparison of keys, keys[i] the key of s[i]: a
\* stable sort, elements of equal key keep the order they had.
SortedBy(s, keys) ==
    The({Table([p \in 1..Len(v) |-> v[CHOOSE i \in 1..Len(v) : rank[i] = p]]) :
            v \in {s}, rank \in {Ranks(keys)}})

\* truncate keeping every element.
truncateNothing(s, n) == s

\* Vec::truncate
truncate(s, n) ==
    The({Table([i \in 1..Min2(n, Len(v)) |-> v[i]]) : v \in {s}})

\* Vec::retain, Iterator::filter: the elements s[i] with keep[i].
Retain(s, keep) ==
    The({LET kept == SelectSeq([i \in 1..Len(v) |-> i], LAMBDA i : k[i])
         IN  Table([p \in 1..Len(kept) |-> v[kept[p]]]) :
            v \in {s}, k \in {keep}})

\* lists[picked[1]] followed by lists[picked[2]] and so on (Vec::extend).
RECURSIVE Extended(_, _)
Extended(lists, picked) ==
    IF picked = <<>> THEN <<>>
    ELSE lists[Head(picked)] \o Extended(lists, Tail(picked))

(***************************************************************************)
(* distance.rs                                                             *)
(***************************************************************************)
\* Both branches of dot_product (the scalar loop below 8 components and the
\* four accumulators above) add the same products; in fixed point the order
\* of the additions does not change the sum.  Units 1/Scale^2.
dot_product(a, b) == RangeSum([i \in 1..Len(a) |-> a[i] * b[i]], 1, Len(a))

cosine_distance(a, b) == Scale * Scale - dot_product(a, b)

\* norm > 1e-10: the smallest positive fixed-point norm is 1/Scale.
normalize_l2(vector) ==
    LET sq_sum == RangeSum([i \in 1..Len(vector) |-> vector[i] * vector[i]],
                           1, Len(vector))
        norm == Sqrt(sq_sum)
    IN  IF norm > 0
        THEN Table([i \in 1..Len(vector) |-> Quot(vector[i] * Scale, norm)])
        ELSE vector

(***************************************************************************)
(* error.rs: VectorDbError, Result.                                        *)
(***************************************************************************)
Ok == [ok |-> TRUE]
Err(kind) == [ok |-> FALSE, err |-> kind]
DimensionMismatch(expected, actual) ==
    [ok |-> FALSE, err |-> "DimensionMismatch", expected |-> expected,
     actual |-> actual]
VectorNotFound(id) == [ok |-> FALSE, err |-> "VectorNotFound", id |-> id]

(***************************************************************************)
(* kmeans.rs.  Cluster indices are the positions 1..K of the centroid      *)
(* sequence (the code counts from 0).  The draws of the random generator   *)
(* are the parameter seeds: seeds[j] is the index of the data point taken  *)
(* as centroid j.                                                          *)
(***************************************************************************)
max_iter == 50

\* tolerance = 1e-4 = 1 / ToleranceInv
ToleranceInv == 10000

\* min_by over the centroids: the first of the closest ones.
Nearest(centroids, point) ==
    LET d == Table([j \in 1..Len(centroids) |->
                      cosine_distance(point, centroids[j])])
    IN  SetMin({j \in 1..Len(centroids) : \A k \in 1..Len(centroids) : d[j] <= d[k]})

\* KMeans::predict
predict(centroids, point) ==
    IF centroids = <<>> THEN 1 ELSE Nearest(centroids, point)

\* The distance of a point to the closest centroid chosen so far.
SeedDistance(centroids, point) ==
    SetMin({cosine_distance(point, centroids[j]) : j \in 1..Len(centroids)})

\* The indices init_centroids can draw as the next centroid: r = u * total
\* with u in [0, 1) is decreased by each distance in turn and the first index
\* with r <= 0 is taken, so u = 0 gives the first index and any index with a
\* positive distance is given by some u.
NextSeeds(data, centroids) ==
    {1} \cup {i \in 1..Len(data) : SeedDistance(centroids, data[i]) > 0}

ValidSeeds(data, k, seeds) ==
    /\ Len(seeds) = Max2(k, 1)
    /\ seeds[1] \in 1..Len(data)
    /\ \A j \in 2..Len(seeds) :
          seeds[j] \in NextSeeds(data, [i \in 1..(j - 1) |-> data[seeds[i]]])

\* KMeans::init_centroids on non-empty data: one centroid is pushed before
\* the loop `for _ in 1..n_clusters`.
init_centroids(data, k, seeds) == Table([j \in 1..Max2(k, 1) |-> data[seeds[j]]])

assign_clusters(centroids, data) ==
    Table([i \in 1..Len(data) |-> Nearest(centroids, data[i])])

\* KMeans::update_centroids on non-empty data whose assignments are below
\* k: the new centroids (a cluster without points is left at the zero
\* vector new_centroids was created with) and the shift.
update_centroids(centroids, data, assignments, k) ==
    LET dim == Len(data[1])
        size(j) == RangeSum([i \in 1..Len(data) |->
                                 IF assignments[i] = j THEN 1 ELSE 0], 1, Len(data))
        total(j, d) == RangeSum([i \in 1..Len(data) |->
                                 IF assignments[i] = j THEN data[i][d] ELSE 0],
                                1, Len(data))
        new_centroids ==
            Table([j \in 1..k |->
                LET c == size(j)
                IN  Table([d \in 1..dim |->
                              IF c > 0 THEN Quot(total(j, d), c) ELSE 0])])
        zipped == Min2(Len(centroids), k)
        total_shift == RangeSum([j \in 1..zipped |->
                                    cosine_distance(centroids[j], new_centroids[j])],
                                1, zipped)
    IN  [centroids |-> new_centroids, shift |-> total_shift]

\* The loop of KMeans::fit, from iteration iter on.
RECURSIVE Lloyd(_, _, _, _)
Lloyd(centroids, data, k, iter) ==
    IF iter >= max_iter THEN centroids
    ELSE LET u == update_centroids(centroids, data,
                                   assign_clusters(centroids, data), k)
         IN  IF u.shift * ToleranceInv < Scale * Scale
             THEN u.centroids
             ELSE Lloyd(u.centroids, data, k, iter + 1)

\* KMeans::fit on non-empty data with n_clusters >= 1, as IVFIndex::build
\* calls it: the centroids it ends with.
fit(n_clusters, data, seeds) ==
    LET k == IF Len(data) < n_clusters THEN Len(data) ELSE n_clusters
    IN  Lloyd(init_centroids(data, k, seeds), data, k, 0)

\* KMeans::new
KMeansNew(n_clusters) == [centroids |-> <<>>, n_clusters |-> n_clusters]

\* A KMeans no call is in progress on.  data and seeds are the argument and
\* the random draws of the last call of fit, target the n_clusters it was
\* entered with, iter the iterations it has completed, assignments the
\* local of that name.
NotFitted(km) ==
    [km |-> km, at |-> "new", data |-> <<>>, seeds |-> <<>>,
     target |-> km.n_clusters, iter |-> 0, assignments |-> <<>>]

\* update_centroids panics on `data[0]` when data is empty and on
\* `new_centroids[cluster]` when an assignment is not below n_clusters.
UpdatePanics(km, data, assignments) ==
    \/ data = <<>>
    \/ \E i \in 1..Len(assignments) : assignments[i] > km.n_clusters

(***************************************************************************)
(* ivf.rs                                                                  *)
(***************************************************************************)
DefaultNProbe == 4

IVFIndexNew(n_clusters) ==
    [centroids |-> <<>>,
     inverted_lists |-> [j \in 1..n_clusters |-> <<>>],
     n_clusters |-> n_clusters,
     n_probe |-> DefaultNProbe]

\* The number of clusters asked for, whatever the size of the data.
desired_clusters(n_clusters, n) == Max2(n_clusters, 1)

\* self.n_clusters.min(embeddings.len() / 10).max(1)
actual_clusters(n_clusters, n) == Max2(Min2(n_clusters, n \div 10), 1)

\* IVFIndex::build; data is a sequence of [id, emb].
build(ivf, data, seeds) ==
    IF data = <<>> THEN ivf
    ELSE LET embeddings == Table([i \in 1..Len(data) |-> data[i].emb])
             actual == actual_clusters(ivf.n_clusters, Len(embeddings))
             centroids == fit(actual, embeddings, seeds)
             cluster == Table([i \in 1..Len(data) |-> predict(centroids, data[i].emb)])
             indices == Table([i \in 1..Len(data) |-> i])
             list(j) == LET members == SelectSeq(indices, LAMBDA i : cluster[i] = j)
                        IN  Table([p \in 1..Len(members) |-> data[members[p]].id])
         IN  [ivf EXCEPT
                 !.centroids = centroids,
                 !.inverted_lists = Table([j \in 1..actual |-> list(j)])]

\* IVFIndex::rebuild
rebuild(ivf, data, seeds) == build(ivf, data, seeds)

is_built(ivf) == ivf.centroids # <<>>

\* IVFIndex::with_n_probe
with_n_probe(ivf, n_probe) ==
    [ivf EXCEPT !.n_probe = Min2(n_probe, ivf.n_clusters)]

\* search_candidates probing the first clusters, whatever their distance.
search_candidates_unsorted(ivf, query_embedding) ==
    IF ivf.centroids = <<>> THEN <<>>
    ELSE LET probe_count == Min2(ivf.n_probe, Len(ivf.centroids))
         IN  Table(Extended(ivf.inverted_lists, [idx \in 1..probe_count |-> idx]))

\* IVFIndex::search_candidates: the ids of the inverted lists of the
\* n_probe clusters whose centroids are closest to the query.
search_candidates(ivf, query_embedding) ==
    IF ivf.centroids = <<>> THEN <<>>
    ELSE LET n == Len(ivf.centroids)
             distance == Table([idx \in 1..n |->
                             cosine_distance(query_embedding, ivf.centroids[idx])])
         IN  The({LET probe_count == Min2(ivf.n_probe, Len(distances))
                  IN  Table(Extended(ivf.inverted_lists,
                                     truncate(distances, probe_count))) :
                     distances \in {SortedBy(Table([idx \in 1..n |-> idx]), distance)}})

(***************************************************************************)
(* collection.rs.  Ids are interned as naturals.  An operation is an       *)
(* operator from the collection (and its arguments) to [coll, res]: the    *)
(* collection it leaves and the Result it returns.  The telemetry fields   *)
(* last_query_time_ms and total_queries are not kept.                      *)
(***************************************************************************)
CollectionNew(name, dimension) ==
    [config |-> [name |-> name, dimension |-> dimension, use_ivf |-> FALSE,
                 n_clusters |-> 0],
     vectors |-> EmptyMap,
     ivf_index |-> None,
     needs_rebuild |-> FALSE,
     batch_mode |-> FALSE,
     modifications_count |-> 0]

CollectionNewWithIvf(name, dimension, n_clusters) ==
    [config |-> [name |-> name, dimension |-> dimension, use_ivf |-> TRUE,
                 n_clusters |-> n_clusters],
     vectors |-> EmptyMap,
     ivf_index |-> Some(IVFIndexNew(n_clusters)),
     needs_rebuild |-> TRUE,
     batch_mode |-> FALSE,
     modifications_count |-> 0]

begin_batch(c) == [c EXCEPT !.batch_mode = TRUE]

end_batch(c) ==
    [c EXCEPT !.batch_mode = FALSE,
              !.needs_rebuild =
                  IF c.config.use_ivf /\ c.modifications_count > 0 THEN TRUE ELSE @]

\* The bookkeeping without the test of batch_mode.
MarkModifiedInBatch(c, n) ==
    IF c.config.use_ivf
    THEN [c EXCEPT !.modifications_count = @ + n, !.needs_rebuild = TRUE]
    ELSE c

\* The bookkeeping at the end of add and of delete.
MarkModified(c, n) ==
    IF c.config.use_ivf
    THEN [c EXCEPT !.modifications_count = @ + n,
                   !.needs_rebuild = IF ~c.batch_mode THEN TRUE ELSE @]
    ELSE c

\* add without the test of the embedding's length.
addUnchecked(c, ids, embeddings, metadatas) ==
    LET n == Len(ids)
        entry(i) == [id |-> ids[i],
                     embedding |-> normalize_l2(embeddings[i]),
                     metadata |-> IF metadatas.some THEN metadatas.v[i] ELSE EmptyMap]
        written == {ids[i] : i \in 1..n}
        final(id) == SetMax({i \in 1..n : ids[i] = id})
        inserted == Table([id \in DOMAIN c.vectors \cup written |->
                        IF id \in written THEN entry(final(id)) ELSE c.vectors[id]])
    IN  [coll |-> MarkModified([c EXCEPT !.vectors = inserted], n), res |-> Ok]

\* Collection::add.  metadatas is None or Some(sequence of maps).  The loop
\* inserts entry after entry and returns at the first embedding of the wrong
\* length: the entries before it stay inserted.
add(c, ids, embeddings, metadatas) ==
    LET n == Len(ids)
        dim == c.config.dimension
        bad == {i \in 1..n : Len(embeddings[i]) # dim}
        stop == IF bad = {} THEN n + 1 ELSE SetMin(bad)
        entry(i) == [id |-> ids[i],
                     embedding |-> normalize_l2(embeddings[i]),
                     metadata |-> IF metadatas.some THEN metadatas.v[i] ELSE EmptyMap]
        written == {ids[i] : i \in 1..(stop - 1)}
        final(id) == SetMax({i \in 1..(stop - 1) : ids[i] = id})
        inserted == Table([id \in DOMAIN c.vectors \cup written |->
                        IF id \in written THEN entry(final(id)) ELSE c.vectors[id]])
    IN  IF n # Len(embeddings)
        THEN [coll |-> c, res |-> Err("InvalidConfig")]
        ELSE IF metadatas.some /\ Len(metadatas.v) # n
        THEN [coll |-> c, res |-> Err("InvalidConfig")]
        ELSE IF bad # {}
        THEN [coll |-> [c EXCEPT !.vectors = inserted],
              res |-> DimensionMismatch(dim, Len(embeddings[stop]))]
        ELSE [coll |-> MarkModified([c EXCEPT !.vectors = inserted], n),
              res |-> Ok]

\* update replacing an entry's metadata by the given map.
updateReplacing(c, ids, metadatas) ==
    LET n == Len(ids)
        missing == {i \in 1..n : ids[i] \notin DOMAIN c.vectors}
        stop == IF missing = {} THEN n + 1 ELSE SetMin(missing)
        given(id) == {i \in 1..(stop - 1) : ids[i] = id}
        vectors == Table([id \in DOMAIN c.vectors |->
                       IF given(id) = {} THEN c.vectors[id]
                       ELSE [c.vectors[id] EXCEPT
                                !.metadata = metadatas[SetMax(given(id))]]])
    IN  IF n # Len(metadatas)
        THEN [coll |-> c, res |-> Err("InvalidConfig")]
        ELSE IF missing # {}
        THEN [coll |-> [c EXCEPT !.vectors = vectors],
              res |-> VectorNotFound(ids[stop])]
        ELSE [coll |-> [c EXCEPT !.vectors = vectors], res |-> Ok]

\* Collection::update: merges metadatas[i] into the entry of ids[i], pair
\* after pair, and returns at the first id that is not stored.
update(c, ids, metadatas) ==
    LET n == Len(ids)
        missing == {i \in 1..n : ids[i] \notin DOMAIN c.vectors}
        stop == IF missing = {} THEN n + 1 ELSE SetMin(missing)
        given(id, k) == {i \in 1..(stop - 1) : ids[i] = id /\ k \in DOMAIN metadatas[i]}
        keys(id) == UNION {DOMAIN metadatas[i] : i \in {j \in 1..(stop - 1) : ids[j] = id}}
        merged(id) ==
            Table([k \in DOMAIN c.vectors[id].metadata \cup keys(id) |->
                IF given(id, k) # {}
                THEN metadatas[SetMax(given(id, k))][k]
                ELSE c.vectors[id].metadata[k]])
        vectors == Table([id \in DOMAIN c.vectors |->
                       [c.vectors[id] EXCEPT !.metadata = merged(id)]])
    IN  IF n # Len(metadatas)
        THEN [coll |-> c, res |-> Err("InvalidConfig")]
        ELSE IF missing # {}
        THEN [coll |-> [c EXCEPT !.vectors = vectors],
              res |-> VectorNotFound(ids[stop])]
        ELSE [coll |-> [c EXCEPT !.vectors = vectors], res |-> Ok]

\* Collection::delete
delete(c, ids) ==
    LET gone == {ids[i] : i \in 1..Len(ids)}
        vectors == Table([id \in DOMAIN c.vectors \ gone |-> c.vectors[id]])
    IN  [coll |-> MarkModified([c EXCEPT !.vectors = vectors], Len(ids)),
         res |-> Ok]

count(c) == Cardinality(DOMAIN c.vectors)

\* Collection::stats, without the memory estimate and the query telemetry.
stats(c) ==
    [name |-> c.config.name,
     dimension |-> c.config.dimension,
     count |-> count(c),
     use_ivf |-> c.config.use_ivf,
     index_info |->
         IF c.config.use_ivf /\ c.ivf_index.some
         THEN Some([is_built |-> is_built(c.ivf_index.v),
                    n_clusters |-> c.config.n_clusters,
                    n_centroids |-> Len(c.ivf_index.v.centroids),
                    needs_rebuild |-> c.needs_rebuild])
         ELSE None]

\* Collection::rebuild_index.  order is the order in which self.vectors.iter()
\* yields the entries (a HashMap: any enumeration of the stored ids).
rebuild_index(c, order, seeds) ==
    IF ~c.config.use_ivf \/ ~c.needs_rebuild THEN c
    ELSE IF c.ivf_index.some
    THEN LET data == Table([i \in 1..Len(order) |->
                         [id |-> order[i], emb |-> c.vectors[order[i]].embedding]])
         IN  IF data # <<>>
             THEN [c EXCEPT !.ivf_index = Some(rebuild(c.ivf_index.v, data, seeds)),
                            !.needs_rebuild = FALSE,
                            !.modifications_count = 0]
             ELSE c
    ELSE c

\* threshold with the minimum of 10 modifications alone.
thresholdMinimumOnly(total) == 10

\* (total as f64 * 0.1).max(10.0) as usize.  The f64 nearest to 0.1 lies
\* above 0.1 by less than 1e-17, so for every usize total the product
\* truncates to total / 10 rounded down.
threshold(total) == Max2(total \div 10, 10)

\* Collection::maybe_rebuild
maybe_rebuild(c, order, seeds) ==
    IF ~c.config.use_ivf \/ ~c.needs_rebuild THEN c
    ELSE IF count(c) = 0 THEN c
    ELSE IF c.modifications_count >= threshold(count(c))
    THEN rebuild_index(c, order, seeds)
    ELSE c

\* Collection::query, as far as the collection is concerned: the dimension
\* check and the automatic rebuild.
query(c, query_embedding, order, seeds) ==
    IF Len(query_embedding) # c.config.dimension
    THEN [coll |-> c,
          res |-> DimensionMismatch(c.config.dimension, Len(query_embedding))]
    ELSE [coll |-> maybe_rebuild(c, order, seeds), res |-> Ok]

SearchResult(entry, normalized_query) ==
    [id |-> entry.id,
     distance |-> cosine_distance(normalized_query, entry.embedding),
     metadata |-> entry.metadata]

\* The keys the results are sorted by.
Distances(results) ==
    The({Table([i \in 1..Len(r) |-> r[i].distance]) : r \in {results}})

Passes(metadata, where_filter) ==
    where_filter.some => matches_filter(metadata, where_filter.v)

\* The results for the entries of the given ids, in their order.
Results(c, ids, normalized_query) ==
    Table([i \in 1..Len(ids) |-> SearchResult(c.vectors[ids[i]], normalized_query)])

\* The vector query_linear sorts: the entries the HashMap yields, in its
\* order, that pass the filter (par_iter().collect() keeps the order).
Searched(c, normalized_query, where_filter, order) ==
    The({Results(c, entries_to_search, normalized_query) :
            entries_to_search \in
                {Retain(order, Table([i \in 1..Len(order) |->
                            Passes(c.vectors[order[i]].metadata, where_filter)]))}})

\* A selection that leaves any n of the elements in the positions before n.
NthAny(results, n) ==
    The({LET m == Len(r)
         IN  IF n >= m \div 4 THEN {<<>>}
             ELSE {nth \in [1..n -> 1..m] :
                     \A i, j \in 1..n : i # j => nth[i] # nth[j]} :
            r \in {results}})

\* What select_nth_unstable_by(n, ..) can leave in the positions before n:
\* any n of the elements, in any order, none of them farther than an
\* element left behind.  A choice is the sequence of their positions.
NthChoices(results, n) ==
    The({LET m == Len(r)
         IN  IF n >= m \div 4 THEN {<<>>}
             ELSE {nth \in [1..n -> 1..m] :
                     /\ \A i, j \in 1..n : i # j => nth[i] # nth[j]
                     /\ \A i \in 1..n :
                           \A j \in 1..m \ {nth[p] : p \in 1..n} :
                               r[nth[i]].distance <= r[j].distance} :
            r \in {results}})

\* Collection::query_linear
query_linear(c, normalized_query, n_results, where_filter, order, nth) ==
    The({IF n_results < Len(results) \div 4
         THEN LET selected == Table([i \in 1..n_results |-> results[nth[i]]])
              IN  SortedBy(selected, Distances(selected))
         ELSE truncate(SortedBy(results, Distances(results)), n_results) :
            results \in {Searched(c, normalized_query, where_filter, order)}})

\* query_with_ivf answering for every candidate, stored or not: a candidate
\* that is not stored comes back without metadata.
query_with_ivf_unchecked(c, normalized_query, n_results, where_filter) ==
    LET entry(id) == IF id \in DOMAIN c.vectors THEN c.vectors[id]
                     ELSE [id |-> id, embedding |-> normalized_query,
                           metadata |-> EmptyMap]
    IN  The({The({The({truncate(SortedBy(results, Distances(results)), n_results) :
            results \in {Table([i \in 1..Len(kept) |->
                             SearchResult(entry(kept[i]), normalized_query)])}}) :
            kept \in {Retain(candidate_ids,
                             Table([i \in 1..Len(candidate_ids) |->
                                       Passes(entry(candidate_ids[i]).metadata,
                                              where_filter)]))}}) :
            candidate_ids \in {search_candidates(c.ivf_index.v, normalized_query)}})

\* The candidates that are stored (filter_map over self.vectors.get) and
\* pass the filter.
Found(c, candidate_ids, where_filter) ==
    Retain(candidate_ids,
           Table([i \in 1..Len(candidate_ids) |->
                     /\ candidate_ids[i] \in DOMAIN c.vectors
                     /\ Passes(c.vectors[candidate_ids[i]].metadata, where_filter)]))

\* Collection::query_with_ivf
query_with_ivf(c, normalized_query, n_results, where_filter) ==
    The({The({The({truncate(SortedBy(results, Distances(results)), n_results) :
            results \in {Results(c, kept, normalized_query)}}) :
            kept \in {Found(c, candidate_ids, where_filter)}}) :
            candidate_ids \in {search_candidates(c.ivf_index.v, normalized_query)}})

UsesIndex(c) ==
    c.config.use_ivf /\ c.ivf_index.some /\ is_built(c.ivf_index.v)

\* The retain and truncate at the end of Collection::query.
Filtered(results, n_results, where_filter) ==
    IF where_filter.some
    THEN truncate(Retain(results,
                         Table([i \in 1..Len(results) |->
                                   matches_filter(results[i].metadata,
                                                  where_filter.v)])),
                  n_results)
    ELSE results

\* Collection::query with the list it returns.  order is the order the
\* HashMap yields the entries in, seeds the draws of a rebuild, nth the
\* choice of select_nth_unstable_by.
query_with_results(c, query_embedding, n_results, where_filter, order, seeds, nth) ==
    IF Len(query_embedding) # c.config.dimension
    THEN [coll |-> c,
          res |-> DimensionMismatch(c.config.dimension, Len(query_embedding))]
    ELSE The({The({[coll |-> rebuilt,
                    res |-> [ok |-> TRUE,
                             val |-> Filtered(results, n_results, where_filter)]] :
            results \in
                {IF UsesIndex(rebuilt)
                 THEN query_with_ivf(rebuilt, normalized_query, n_results,
                                     where_filter)
                 ELSE query_linear(rebuilt, normalized_query, n_results,
                                   where_filter, order, nth)}}) :
            rebuilt \in {maybe_rebuild(c, order, seeds)},
            normalized_query \in {normalize_l2(query_embedding)}})

(***************************************************************************)
(* storage.rs.  The store maps a collection name to its serialized form:   *)
(* the fields of Collection that are not #[serde(skip)].                   *)
(***************************************************************************)
Serialize(c) ==
    [config |-> c.config,
     vectors |-> c.vectors,
     needs_rebuild |-> c.needs_rebuild,
     modifications_count |-> c.modifications_count]

\* Deserialization gives the skipped fields their Default (ivf_index: None,
\* batch_mode: false); load_collection then marks an IVF collection.
Deserialize(s) ==
    [config |-> s.config,
     vectors |-> s.vectors,
     ivf_index |-> None,
     needs_rebuild |-> s.needs_rebuild,
     batch_mode |-> FALSE,
     modifications_count |-> s.modifications_count]

\* Storage::save_collection: the files after a save that returned Ok.
save_collection(fs, c) ==
    Table([n \in DOMAIN fs \cup {c.config.name} |->
        IF n = c.config.name THEN Serialize(c) ELSE fs[n]])

collection_exists(fs, name) == name \in DOMAIN fs

\* What data.bin holds when File::create has emptied it and the
\* serialization did not complete.
Truncated == [truncated |-> TRUE]

\* Storage::load_collection when the file can be opened.
load_collection(fs, name) ==
    IF collection_exists(fs, name)
    THEN IF fs[name] = Truncated
         THEN [res |-> Err("Serialization")]
         ELSE LET collection == Deserialize(fs[name])
              IN  [res |-> Ok,
                   coll |-> IF collection.config.use_ivf
                            THEN [collection EXCEPT !.needs_rebuild = TRUE]
                            ELSE collection]
    ELSE [res |-> Err("CollectionNotFound")]

\* Storage::delete_collection: the files after a delete that returned Ok.
delete_files(fs, name) == Table([n \in DOMAIN fs \ {name} |-> fs[n]])

\* The returns of Storage::save_collection: Ok, the serialized collection
\* in data.bin; an Io error of create_dir_all or File::create, the files as
\* they were; a Serialization error of serialize_into, data.bin emptied by
\* File::create.
SaveOutcomes(fs, c) ==
    {[files |-> save_collection(fs, c), res |-> Ok],
     [files |-> fs, res |-> Err("Io")],
     [files |-> Table([n \in DOMAIN fs \cup {c.config.name} |->
                    IF n = c.config.name THEN Truncated ELSE fs[n]]),
      res |-> Err("Serialization")]}

\* The returns of Storage::load_collection: File::open may fail.
LoadOutcomes(fs, name) ==
    {load_collection(fs, name)} \cup
    (IF collection_exists(fs, name) THEN {[res |-> Err("Io")]} ELSE {})

\* The returns of Storage::delete_collection: remove_dir_all may fail, with
\* data.bin removed or not.
DeleteOutcomes(fs, name) ==
    IF collection_exists(fs, name)
    THEN {[files |-> delete_files(fs, name), res |-> Ok],
          [files |-> delete_files(fs, name), res |-> Err("Io")],
          [files |-> fs, res |-> Err("Io")]}
    ELSE {[files |-> fs, res |-> Ok]}

(***************************************************************************)
(* Inputs of the filter evaluation.                                        *)
(***************************************************************************)
MaxList == 1

FKeys == {"kind", "lang"}

\* Three values: two that differ in payload, two that differ in tag only.
MetaVals == {MV("Int", 1), MV("Int", 2), MV("String", 1)}

Rank(mv) == IF mv.tag = "Int" THEN mv.val ELSE 2 + mv.val

\* Lists without repetition, in one fixed order (contains() does not look at
\* the order).
RECURSIVE ListsUpTo(_)
ListsUpTo(n) ==
    IF n = 0 THEN {<<>>}
    ELSE LET shorter == ListsUpTo(n - 1)
         IN  shorter \cup
             {Append(l, mv) : l \in {s \in shorter : Len(s) = n - 1}, mv \in MetaVals}

Increasing(l) == \A i \in 1..(Len(l) - 1) : Rank(l[i]) < Rank(l[i + 1])

ValueLists == {l \in ListsUpTo(MaxList) : Increasing(l)}

OptValue == {None} \cup {Some(mv) : mv \in MetaVals}
OptList == {None} \cup {Some(l) : l \in ValueLists}

FilterValues ==
    {Direct(mv) : mv \in MetaVals} \cup
    {Operator(ne, iv, nin) : ne \in OptValue, iv \in OptList, nin \in OptList}

MapsOver(keys, values) ==
    UNION {[d -> values] : d \in SUBSET keys}

IndexIdle ==
    /\ index = IVFIndexNew(0)
    /\ iop = [op |-> "init"]

EvaluationIdle ==
    /\ fmeta = EmptyMap
    /\ ffilter = EmptyMap
    /\ fresult = None

KMeansIdle == kmeans = NotFitted(KMeansNew(0))

FilterIdle == EvaluationIdle /\ IndexIdle /\ KMeansIdle

FilterInit ==
    /\ fmeta \in MapsOver(FKeys, MetaVals)
    /\ ffilter \in MapsOver(FKeys, FilterValues)
    /\ fresult = None
    /\ IndexIdle
    /\ KMeansIdle

Evaluate ==
    /\ ~fresult.some
    /\ fresult' = Some(matches_filter(fmeta, ffilter))
    /\ UNCHANGED <<fmeta, ffilter, index, iop, kmeans>>
    /\ UNCHANGED cvars
    /\ UNCHANGED kvars
    /\ UNCHANGED tvars

(***************************************************************************)
(* One IVFIndex on its own: new(C), then with_n_probe and build in any     *)
(* order.  A build is given n entries of ids first + 1 .. first + n, their *)
(* embeddings going round nine directions.                                 *)
(***************************************************************************)
MaxClusters == 3
MaxProbe == 5

\* The builds: how many entries, and the id before the first.
BuildChoices ==
    {[n |-> 0, first |-> 0], [n |-> 1, first |-> 0], [n |-> 20, first |-> 0],
     [n |-> 20, first |-> 100], [n |-> 10 * MaxClusters, first |-> 10]}

Nine ==
    <<  <<10, 0>>, <<8, 6>>, <<6, 8>>, <<-6, 8>>, <<8, 6>>, <<-8, 6>>,
        <<-10, 0>>, <<0, -10>>, <<0, 10>>  >>

BuildData(n, first) ==
    Table([i \in 1..n |->
              [id |-> first + i, emb |-> Table(Nine[((i - 1) % Len(Nine)) + 1])]])

\* The draws of the random generator a build is checked with: the first
\* data point for every centroid, or the first and then the last for the
\* others, where k-means++ can draw it.
BuildSeeds(x, data) ==
    LET n == Len(data)
        k == actual_clusters(x.n_clusters, n)
        embeddings == Table([i \in 1..n |-> data[i].emb])
    IN  IF n = 0 THEN {<<1>>}
        ELSE {s \in {Table([j \in 1..k |-> 1]),
                     Table([j \in 1..k |-> IF j = 1 THEN 1 ELSE n])} :
                ValidSeeds(embeddings, k, s)}

IndexInit ==
    /\ \E n_clusters \in {0, 1, MaxClusters} : index = IVFIndexNew(n_clusters)
    /\ iop = [op |-> "new", built |-> <<>>]

IWithNProbe ==
    \E n_probe \in 0..MaxProbe :
        /\ index' = with_n_probe(index, n_probe)
        /\ iop' = [op |-> "with_n_probe", n_probe |-> n_probe, built |-> iop.built]
        /\ UNCHANGED <<fmeta, ffilter, fresult, kmeans>>
        /\ UNCHANGED cvars
        /\ UNCHANGED kvars
        /\ UNCHANGED tvars

IBuild ==
    \E b \in BuildChoices :
        LET data == BuildData(b.n, b.first)
        IN  \E seeds \in BuildSeeds(index, data) :
                /\ index' = build(index, data, seeds)
                /\ iop' = [op |-> "build",
                           built |-> IF data = <<>> THEN iop.built ELSE data]
                /\ UNCHANGED <<fmeta, ffilter, fresult, kmeans>>
                /\ UNCHANGED cvars
                /\ UNCHANGED kvars
                /\ UNCHANGED tvars

\* The queries given to search_candidates.
SearchQueries == {<<10, 0>>, <<0, -10>>}

ISearch ==
    \E q \in SearchQueries :
        /\ iop' = [op |-> "search_candidates", query |-> q,
                   candidates |-> search_candidates(index, q),
                   built |-> iop.built]
        /\ UNCHANGED <<fmeta, ffilter, fresult, index, kmeans>>
        /\ UNCHANGED cvars
        /\ UNCHANGED kvars
        /\ UNCHANGED tvars

IndexNext ==
    \/ IWithNProbe
    \/ IBuild
    \/ ISearch

(***************************************************************************)
(* One KMeans on its own: new(K), then fit on a dataset, one step for the  *)
(* entry of fit up to its loop and one for each iteration of the loop.  A  *)
(* KMeans that fit has returned from can be fitted again.                  *)
(***************************************************************************)
MaxFitClusters == 3

FitData ==
    {<<>>,
     << <<10, 0>> >>,
     << <<10, 0>>, <<10, 0>> >>,
     << <<10, 0>>, <<8, 6>>, <<0, 10>>, <<-6, 8>> >>}

\* The draws init_centroids can make on data.
FitSeeds(data, k) ==
    IF data = <<>> THEN {<<>>}
    ELSE {seeds \in [1..Max2(k, 1) -> 1..Len(data)] : ValidSeeds(data, k, seeds)}

KMeansInit ==
    \E n_clusters \in 0..MaxFitClusters : kmeans = NotFitted(KMeansNew(n_clusters))

\* KMeans::fit up to its loop: n_clusters is lowered to the size of the
\* data, init_centroids returns at once on empty data.
KFit ==
    /\ kmeans.at \in {"new", "returned"}
    /\ \E data \in FitData :
          LET k == IF Len(data) < kmeans.km.n_clusters THEN Len(data)
                   ELSE kmeans.km.n_clusters
          IN  \E seeds \in FitSeeds(data, k) :
                  kmeans' = [km |-> [centroids |-> IF data = <<>>
                                                  THEN kmeans.km.centroids
                                                  ELSE init_centroids(data, k, seeds),
                                     n_clusters |-> k],
                             at |-> "fitting", data |-> data, seeds |-> seeds,
                             target |-> kmeans.km.n_clusters, iter |-> 0,
                             assignments |-> <<>>]
    /\ UNCHANGED <<fmeta, ffilter, fresult, index, iop>>
    /\ UNCHANGED cvars
    /\ UNCHANGED kvars
    /\ UNCHANGED tvars

\* One iteration of the loop of fit: assign_clusters, update_centroids, and
\* the break when the shift is below the tolerance.
KIterate ==
    /\ kmeans.at = "fitting"
    /\ kmeans.iter < max_iter
    /\ LET km == kmeans.km
           assignments == assign_clusters(km.centroids, kmeans.data)
       IN  IF UpdatePanics(km, kmeans.data, assignments)
           THEN kmeans' = [kmeans EXCEPT !.at = "panicked",
                                         !.assignments = assignments]
           ELSE LET u == update_centroids(km.centroids, kmeans.data, assignments,
                                          km.n_clusters)
                    done == \/ u.shift * ToleranceInv < Scale * Scale
                            \/ kmeans.iter + 1 >= max_iter
                IN  kmeans' = [kmeans EXCEPT !.km.centroids = u.centroids,
                                             !.assignments = assignments,
                                             !.iter = @ + 1,
                                             !.at = IF done THEN "returned"
                                                    ELSE "fitting"]
    /\ UNCHANGED <<fmeta, ffilter, fresult, index, iop>>
    /\ UNCHANGED cvars
    /\ UNCHANGED kvars
    /\ UNCHANGED tvars

KMeansNext ==
    \/ KFit
    \/ KIterate

(***************************************************************************)
(* One collection driven through its operations.  Its vectors are the ids  *)
(* 1..count, all with the embedding [1.0, 0.0]; the run starts from the    *)
(* collection that new / new_with_ivf, one add of cin.base vectors and     *)
(* rebuild_index leave, and grows it by at most cin.growth vectors.        *)
(***************************************************************************)
MaxGrowth == 10
MaxMods == 11

Dim == 2
GoodEmbedding == Table([d \in 1..Dim |-> IF d = 1 THEN Scale ELSE 0])
BadEmbedding == Table([d \in 1..(Dim - 1) |-> IF d = 1 THEN Scale ELSE 0])

ClusterChoices == {1}

Fresh(c, n) == LET m == count(c) IN Table([i \in 1..n |-> m + i])
Stored(c, n) == LET m == count(c) IN Table([i \in 1..n |-> m - n + i])
Embeddings(n) == Table([i \in 1..n |-> GoodEmbedding])

\* The order in which the HashMap yields the entries: here by id.
IterOrder(c) == Table([i \in 1..count(c) |-> i])

\* The draws of the random generator a rebuild of c is checked with.
SeedChoices(c) ==
    LET n == count(c)
        k == actual_clusters(c.config.n_clusters, n)
        data == Table([i \in 1..n |-> c.vectors[i].embedding])
    IN  IF n = 0 THEN {<<1>>}
        ELSE {s \in [1..k -> {1, n}] : ValidSeeds(data, k, s)}

\* The generator drawing the first data point every time.
FirstSeeds(c) ==
    Table([j \in 1..actual_clusters(c.config.n_clusters, count(c)) |-> 1])

Prebuilt(base, use_ivf, n_clusters) ==
    LET c0 == IF use_ivf
              THEN CollectionNewWithIvf("c", Dim, n_clusters)
              ELSE CollectionNew("c", Dim)
        c1 == IF base = 0 THEN c0
              ELSE add(c0, Fresh(c0, base), Embeddings(base), None).coll
    IN  rebuild_index(c1, IterOrder(c1), FirstSeeds(c1))

Inputs(bases, sizes, growth, mods) ==
    {[base |-> b, sizes |-> sizes, growth |-> growth, max_mods |-> mods] : b \in bases}

CollIdle ==
    /\ coll = CollectionNew("c", Dim)
    /\ cin = [base |-> 0, sizes |-> {}, growth |-> 0, max_mods |-> 0]
    /\ cop = [op |-> "init"]

CollInit ==
    /\ cin \in Inputs({0, 95}, {1, 5}, MaxGrowth, MaxMods)
    /\ \E use_ivf \in BOOLEAN, n \in ClusterChoices :
          coll = Prebuilt(cin.base, use_ivf, IF use_ivf THEN n ELSE 0)
    /\ cop = [op |-> "init"]

Did(op, r) ==
    /\ coll' = r.coll
    /\ cop' = [op |-> op, res |-> r.res]
    /\ UNCHANGED cin
    /\ UNCHANGED fvars
    /\ UNCHANGED kvars
    /\ UNCHANGED tvars

CanGrow(n) ==
    /\ count(coll) + n <= cin.base + cin.growth
    /\ coll.modifications_count + n <= cin.max_mods

CBeginBatch == Did("begin_batch", [coll |-> begin_batch(coll), res |-> Ok])

CEndBatch == Did("end_batch", [coll |-> end_batch(coll), res |-> Ok])

\* add of n vectors under new ids.
CAdd ==
    \E n \in cin.sizes :
        /\ CanGrow(n)
        /\ Did("add", add(coll, Fresh(coll, n), Embeddings(n), None))

\* add of two vectors, the second of the wrong length.
CAddMismatch ==
    /\ CanGrow(2)
    /\ Did("add", add(coll, Fresh(coll, 2), <<GoodEmbedding, BadEmbedding>>, None))

\* delete of the n newest ids, or of n ids that are not stored.  The
\* call's argument is kept beside its result.
CDelete ==
    \E n \in cin.sizes, stored \in BOOLEAN :
        LET ids == IF stored THEN Stored(coll, n) ELSE Fresh(coll, n)
            r == delete(coll, ids)
        IN  /\ coll.modifications_count + n <= cin.max_mods
            /\ stored => count(coll) - n >= cin.base
            /\ coll' = r.coll
            /\ cop' = [op |-> "delete", res |-> r.res, ids |-> ids]
            /\ UNCHANGED cin
            /\ UNCHANGED fvars
            /\ UNCHANGED kvars
            /\ UNCHANGED tvars

\* The metadata maps an update gives.
UpdateMetadata ==
    {[kind |-> MV("Int", 1)], [kind |-> MV("Int", 2)], [tag |-> MV("String", 1)]}

\* update of the metadata of id 1, alone, followed or preceded by an id
\* that is not stored.  The call's arguments are kept beside its result.
CUpdate ==
    \E ids \in {<<1>>, <<1, count(coll) + 1>>, <<count(coll) + 1, 1>>},
       m \in UpdateMetadata :
        LET metadatas == Table([i \in 1..Len(ids) |-> m])
            r == update(coll, ids, metadatas)
        IN  /\ coll' = r.coll
            /\ cop' = [op |-> "update", res |-> r.res, ids |-> ids,
                       metadatas |-> metadatas]
            /\ UNCHANGED cin
            /\ UNCHANGED fvars
            /\ UNCHANGED kvars
            /\ UNCHANGED tvars

CRebuildIndex ==
    \E seeds \in SeedChoices(coll) :
        Did("rebuild_index",
            [coll |-> rebuild_index(coll, IterOrder(coll), seeds), res |-> Ok])

CQuery ==
    \E q \in {GoodEmbedding, BadEmbedding}, seeds \in SeedChoices(coll) :
        Did("query", query(coll, q, IterOrder(coll), seeds))

\* The collection is saved and loaded back (storage.rs).
CReload ==
    Did("reload",
        load_collection(save_collection(EmptyMap, coll), coll.config.name))

CollNext ==
    \/ CBeginBatch
    \/ CEndBatch
    \/ CAdd
    \/ CAddMismatch
    \/ CDelete
    \/ CRebuildIndex
    \/ CQuery
    \/ CReload

\* A collection that starts empty and is driven through every operation,
\* update included.
MaxOpsGrowth == 4
MaxOpsMods == 6

OpsInit ==
    /\ cin \in Inputs({0}, {1, 2}, MaxOpsGrowth, MaxOpsMods)
    /\ \E use_ivf \in BOOLEAN :
          coll = Prebuilt(cin.base, use_ivf, IF use_ivf THEN 1 ELSE 0)
    /\ cop = [op |-> "init"]

OpsNext ==
    \/ CollNext
    \/ CUpdate

(***************************************************************************)
(* One collection and its queries.  The vectors are unit vectors in eight  *)
(* directions (two ids share one direction, so distances tie), given to    *)
(* add at twice their length; the metadata of an id is its parity.  The    *)
(* run starts empty or from the ids 1..QueryBase, added and indexed; the   *)
(* ids 1 and QueryBase + 1 are then deleted and added.                     *)
(***************************************************************************)
QueryBase == 8
MaxQueryMods == 3

Directions == Nine

\* The direction of an id, with zeros in the dimensions after the second.
Direction(id) ==
    LET xy == Directions[((id - 1) % Len(Directions)) + 1]
    IN  Table([d \in 1..Dim |-> IF d <= Len(xy) THEN xy[d] ELSE 0])

RawEmbedding(id) == Table([d \in 1..Dim |-> 2 * Direction(id)[d]])

Parity(id) == [kind |-> MV("Int", 1 + (id % 2))]

Touched == {1, QueryBase + 1}

QueryEmbeddings ==
    {Table([d \in 1..Dim |-> IF d = 1 THEN 2 * Scale ELSE 0]),
     Table([d \in 1..Dim |-> IF d = 2 THEN Scale ELSE 0]),
     BadEmbedding}

NResults == {0, 1, 2, QueryBase + 1}

WhereFilters == {None, Some([kind |-> Direct(MV("Int", 1))])}

Ascending(S) ==
    Table([i \in 1..Cardinality(S) |->
              CHOOSE x \in S : Cardinality({y \in S : y < x}) = i - 1])

Descending(S) ==
    Table([i \in 1..Cardinality(S) |->
              CHOOSE x \in S : Cardinality({y \in S : y > x}) = i - 1])

\* Two of the orders the HashMap can yield the entries in.
Orders(c) == {Ascending(DOMAIN c.vectors), Descending(DOMAIN c.vectors)}

\* The draws of a rebuild: the first data point for every centroid.
QuerySeeds(c) ==
    Table([j \in 1..actual_clusters(c.config.n_clusters, count(c)) |-> 1])

QueryPrebuilt(base, use_ivf) ==
    LET c0 == IF use_ivf
              THEN CollectionNewWithIvf("c", Dim, 1)
              ELSE CollectionNew("c", Dim)
        ids == Table([i \in 1..base |-> i])
        c1 == IF base = 0 THEN c0
              ELSE add(c0, ids, Table([i \in 1..base |-> RawEmbedding(i)]),
                       Some(Table([i \in 1..base |-> Parity(i)]))).coll
    IN  rebuild_index(c1, ids, QuerySeeds(c1))

QueryInit ==
    /\ cin \in Inputs({0, QueryBase}, {1}, 1, MaxQueryMods)
    /\ \E use_ivf \in BOOLEAN : coll = QueryPrebuilt(cin.base, use_ivf)
    /\ cop = [op |-> "init"]

QAdd ==
    \E id \in Touched \ DOMAIN coll.vectors :
        /\ coll.modifications_count + 1 <= cin.max_mods
        /\ Did("add", add(coll, <<id>>, <<RawEmbedding(id)>>, Some(<<Parity(id)>>)))

QDelete ==
    \E id \in Touched \cap DOMAIN coll.vectors :
        LET r == delete(coll, <<id>>)
        IN  /\ coll.modifications_count + 1 <= cin.max_mods
            /\ coll' = r.coll
            /\ cop' = [op |-> "delete", res |-> r.res, ids |-> <<id>>]
            /\ UNCHANGED cin
            /\ UNCHANGED fvars
            /\ UNCHANGED kvars
            /\ UNCHANGED tvars

QRebuildIndex ==
    \E order \in Orders(coll) :
        Did("rebuild_index",
            [coll |-> rebuild_index(coll, order, QuerySeeds(coll)), res |-> Ok])

\* A query; its arguments are kept beside its result.
QQuery ==
    \E q \in QueryEmbeddings, k \in NResults, f \in WhereFilters,
       order \in Orders(coll) :
        \E nth \in NthChoices(Searched(coll, normalize_l2(q), f, order), k) :
            \E r \in {query_with_results(coll, q, k, f, order, QuerySeeds(coll), nth)} :
                /\ coll' = r.coll
                /\ cop' = [op |-> "query", res |-> r.res, query_embedding |-> q,
                           n_results |-> k, where_filter |-> f]
                /\ UNCHANGED cin
                /\ UNCHANGED fvars
                /\ UNCHANGED kvars
                /\ UNCHANGED tvars

QueryNext ==
    \/ QAdd
    \/ QDelete
    \/ QRebuildIndex
    \/ QQuery
    \/ CReload

(***************************************************************************)
(* client.rs.  One client over one store.  Every call holds the write lock *)
(* of the cache from its first line to its return (with_collection on a    *)
(* resident collection: the read lock), so a call is one step.             *)
(***************************************************************************)
MaxCached == 1
MaxClock == 1
MaxClientMods == 1

Names == {"X", "Y"}

\* VectorDbClient::now
now == clock

Remove(colls, name) == Table([n \in DOMAIN colls \ {name} |-> colls[n]])

\* colls.insert(name, CachedCollection { collection, last_access })
Insert(colls, name, collection, last_access) ==
    Table([n \in DOMAIN colls \cup {name} |->
        IF n = name
        THEN [collection |-> collection, last_access |-> last_access]
        ELSE colls[n]])

\* evict_lru removing an entry of the greatest last_access.
evict_mru(colls, max) ==
    IF Cardinality(DOMAIN colls) < max
    THEN {[colls |-> colls, victim |-> None]}
    ELSE IF DOMAIN colls = {}
    THEN {[colls |-> colls, victim |-> None]}
    ELSE LET newest == SetMax({colls[n].last_access : n \in DOMAIN colls})
         IN  {[colls |-> Remove(colls, n),
               victim |-> Some([name |-> n, collection |-> colls[n].collection,
                                last_access |-> colls[n].last_access])] :
                 n \in {m \in DOMAIN colls : colls[m].last_access = newest}}

\* VectorDbClient::evict_lru: the maps it can leave, each with the entry it
\* removed.  min_by_key over the HashMap's iterator picks any of the entries
\* of minimal last_access; on an empty map it finds none.
evict_lru(colls, max) ==
    IF Cardinality(DOMAIN colls) < max
    THEN {[colls |-> colls, victim |-> None]}
    ELSE IF DOMAIN colls = {}
    THEN {[colls |-> colls, victim |-> None]}
    ELSE LET oldest == SetMin({colls[n].last_access : n \in DOMAIN colls})
         IN  {[colls |-> Remove(colls, n),
               victim |-> Some([name |-> n, collection |-> colls[n].collection,
                                last_access |-> colls[n].last_access])] :
                 n \in {m \in DOMAIN colls : colls[m].last_access = oldest}}

\* The record of a call: its result, the entry evict_lru removed during it,
\* where it found the collection ("resident", "loaded", "none"), the
\* result of each run of the closure, and whether save_collection ran.
Ret(op, name, res, victim, source, runs, saved) ==
    [op |-> op, name |-> name, res |-> res, evicted |-> victim,
     source |-> source, runs |-> runs, saved |-> saved]

Finish(colls, fs, r) ==
    /\ cache' = colls
    /\ files' = fs
    /\ ret' = r
    /\ UNCHANGED <<clock, max_cached>>
    /\ UNCHANGED fvars
    /\ UNCHANGED cvars

\* Create with the name looked up in the cache alone.
CreateUnlessResident(op, name, c) ==
    IF name \in DOMAIN cache
    THEN Finish(cache, files,
                Ret(op, name, Err("CollectionAlreadyExists"), None, "none", <<>>, FALSE))
    ELSE \E s \in SaveOutcomes(files, c) :
            IF ~s.res.ok
            THEN Finish(cache, s.files, Ret(op, name, s.res, None, "none", <<>>, TRUE))
            ELSE \E e \in evict_lru(cache, max_cached) :
                    Finish(Insert(e.colls, name, c, now), s.files,
                           Ret(op, name, Ok, e.victim, "none", <<>>, TRUE))

\* Create with the collection inserted before it is saved.
CreateBeforeSave(op, name, c) ==
    IF name \in DOMAIN cache \/ collection_exists(files, name)
    THEN Finish(cache, files,
                Ret(op, name, Err("CollectionAlreadyExists"), None, "none", <<>>, FALSE))
    ELSE \E e \in evict_lru(cache, max_cached), s \in SaveOutcomes(files, c) :
            Finish(Insert(e.colls, name, c, now), s.files,
                   Ret(op, name, s.res, e.victim, "none", <<>>, TRUE))

\* create_collection and create_collection_with_ivf, from the constructed
\* collection on.
Create(op, name, c) ==
    IF name \in DOMAIN cache \/ collection_exists(files, name)
    THEN Finish(cache, files,
                Ret(op, name, Err("CollectionAlreadyExists"), None, "none", <<>>, FALSE))
    ELSE \E s \in SaveOutcomes(files, c) :
            IF ~s.res.ok
            THEN Finish(cache, s.files, Ret(op, name, s.res, None, "none", <<>>, TRUE))
            ELSE \E e \in evict_lru(cache, max_cached) :
                    Finish(Insert(e.colls, name, c, now), s.files,
                           Ret(op, name, Ok, e.victim, "none", <<>>, TRUE))

create_collection(name, dimension) ==
    Create("create_collection", name, CollectionNew(name, dimension))

create_collection_with_ivf(name, dimension, n_clusters) ==
    Create("create_collection_with_ivf", name,
           CollectionNewWithIvf(name, dimension, n_clusters))

\* Resolve with evict_lru run before the load.
ResolveEvictFirst(name) ==
    IF name \in DOMAIN cache
    THEN {[res |-> Ok, colls |-> cache, victim |-> None, source |-> "resident"]}
    ELSE UNION {
            {IF ~l.res.ok
             THEN [res |-> l.res, colls |-> e.colls, victim |-> e.victim,
                   source |-> "none"]
             ELSE [res |-> Ok, colls |-> Insert(e.colls, name, l.coll, now),
                   victim |-> e.victim, source |-> "loaded"] :
                e \in evict_lru(cache, max_cached)} :
            l \in LoadOutcomes(files, name)}

\* Resolve without the look in the cache: the collection is loaded whether
\* it is resident or not.
ResolveWithoutCheck(name) ==
    UNION {
        IF ~l.res.ok
        THEN {[res |-> l.res, colls |-> cache, victim |-> None, source |-> "none"]}
        ELSE {[res |-> Ok, colls |-> Insert(e.colls, name, l.coll, now),
               victim |-> e.victim, source |-> "loaded"] :
                 e \in evict_lru(cache, max_cached)} :
        l \in LoadOutcomes(files, name)}

\* The block get_collection, with_collection and with_collection_mut share:
\* a collection that is not resident is loaded, evict_lru runs, and the
\* collection is inserted stamped with now().
Resolve(name) ==
    IF name \in DOMAIN cache
    THEN {[res |-> Ok, colls |-> cache, victim |-> None, source |-> "resident"]}
    ELSE UNION {
            IF ~l.res.ok
            THEN {[res |-> l.res, colls |-> cache, victim |-> None, source |-> "none"]}
            ELSE {[res |-> Ok, colls |-> Insert(e.colls, name, l.coll, now),
                   victim |-> e.victim, source |-> "loaded"] :
                     e \in evict_lru(cache, max_cached)} :
            l \in LoadOutcomes(files, name)}

\* cached.last_access = Self::now()
Touch(colls, name) ==
    [colls EXCEPT ![name].last_access = now]

get_collection(name) ==
    \E r \in Resolve(name) :
        Finish(IF r.res.ok THEN Touch(r.colls, name) ELSE r.colls, files,
               Ret("get_collection", name, r.res, r.victim, r.source, <<>>, FALSE))

\* delete_collection without collections.remove(name).
delete_from_store(name) ==
    \E d \in DeleteOutcomes(files, name) :
        Finish(cache, d.files,
               Ret("delete_collection", name, d.res, None,
                   IF name \in DOMAIN cache THEN "resident" ELSE "none", <<>>, FALSE))

delete_collection(name) ==
    \E d \in DeleteOutcomes(files, name) :
        Finish(Remove(cache, name), d.files,
               Ret("delete_collection", name, d.res, None,
                   IF name \in DOMAIN cache THEN "resident" ELSE "none", <<>>, FALSE))

\* with_collection stamping a resident collection with now() as the other
\* calls do.
with_collection_touching(name) ==
    \E r \in Resolve(name) :
        IF ~r.res.ok
        THEN Finish(r.colls, files,
                    Ret("with_collection", name, r.res, None, "none", <<>>, FALSE))
        ELSE LET out == [ok |-> TRUE, val |-> stats(r.colls[name].collection)]
             IN  Finish(Touch(r.colls, name), files,
                        Ret("with_collection", name, out, r.victim, r.source,
                            <<out>>, FALSE))

\* with_collection(name, |coll| coll.stats()).  A resident collection is
\* read under the read lock and its last_access is left as it is.
with_collection(name) ==
    IF name \in DOMAIN cache
    THEN LET out == [ok |-> TRUE, val |-> stats(cache[name].collection)]
         IN  Finish(cache, files,
                    Ret("with_collection", name, out, None, "resident", <<out>>, FALSE))
    ELSE \E r \in Resolve(name) :
            IF ~r.res.ok
            THEN Finish(r.colls, files,
                        Ret("with_collection", name, r.res, None, "none", <<>>, FALSE))
            ELSE LET out == [ok |-> TRUE, val |-> stats(r.colls[name].collection)]
                 IN  Finish(Touch(r.colls, name), files,
                            Ret("with_collection", name, out, r.victim, r.source,
                                <<out>>, FALSE))

\* The closures the server passes to with_collection_mut (main.rs).
Closures ==
    {[kind |-> "add", ids |-> <<1>>, embeddings |-> <<GoodEmbedding>>],
     [kind |-> "add", ids |-> <<1, 2>>, embeddings |-> <<GoodEmbedding, BadEmbedding>>],
     [kind |-> "delete", ids |-> <<1>>],
     [kind |-> "rebuild"]}

\* f(&mut cached.collection): the collection f leaves and what f returns.
Apply(f, c) ==
    CASE f.kind = "add" -> add(c, f.ids, f.embeddings, None)
      [] f.kind = "delete" -> delete(c, f.ids)
      [] f.kind = "rebuild" ->
            IF ~c.config.use_ivf
            THEN [coll |-> c, res |-> Err("InvalidConfig")]
            ELSE LET d == rebuild_index(c, IterOrder(c), FirstSeeds(c))
                 IN  [coll |-> d, res |-> [ok |-> TRUE, val |-> stats(d)]]

\* The last lines of with_collection_mut with the save done whatever f
\* returned.
PersistAlways(a, fs) ==
    {[files |-> s.files,
      res |-> IF a.res.ok /\ ~s.res.ok THEN s.res ELSE a.res,
      saved |-> TRUE] : s \in SaveOutcomes(fs, a.coll)}

\* The last lines of with_collection_mut without the save.
PersistNever(a, fs) ==
    {[files |-> fs, res |-> a.res, saved |-> FALSE]}

\* The last lines of with_collection_mut: let res = f(..)?;
\* save_collection(..)?; Ok(res).  a is what Apply gave.
Persist(a, fs) ==
    IF ~a.res.ok
    THEN {[files |-> fs, res |-> a.res, saved |-> FALSE]}
    ELSE {[files |-> s.files,
           res |-> IF s.res.ok THEN a.res ELSE s.res,
           saved |-> TRUE] : s \in SaveOutcomes(fs, a.coll)}

\* with_collection_mut(name, f).  After the insertion get_mut(name) finds
\* the entry, so its CollectionNotFound is never returned.
with_collection_mut(name, f) ==
    \E r \in Resolve(name) :
        IF ~r.res.ok
        THEN Finish(r.colls, files,
                    Ret("with_collection_mut", name, r.res, None, "none", <<>>, FALSE))
        ELSE LET colls == Touch(r.colls, name)
                 a == Apply(f, colls[name].collection)
             IN  /\ a.coll.modifications_count <= MaxClientMods
                 /\ \E p \in Persist(a, files) :
                       Finish([colls EXCEPT ![name].collection = a.coll], p.files,
                              Ret("with_collection_mut", name, p.res, r.victim,
                                  r.source, <<a.res>>, p.saved))

\* The RwLock with no guard alive.
Unlocked == [writer |-> 0, readers |-> {}]

Threads == {1, 2}

\* No thread is inside a call of the client.
ThreadsIdle ==
    /\ lock = Unlocked
    /\ thr = Table([t \in Threads |-> [pc |-> "idle"]])
    /\ produced = EmptyMap
    /\ log = <<>>

ClientIdle ==
    /\ cache = EmptyMap
    /\ files = EmptyMap
    /\ clock = 0
    /\ max_cached = 0
    /\ ret = [op |-> "idle"]
    /\ ThreadsIdle

\* VectorDbClient::new over an empty directory, VECTORDB_MAX_CACHED set to
\* any of 0..MaxCached.
ClientInit ==
    /\ cache = EmptyMap
    /\ files = EmptyMap
    /\ clock = 0
    /\ max_cached \in 0..MaxCached
    /\ ret = [op |-> "new"]
    /\ ThreadsIdle

\* A second passes.
Tick ==
    /\ clock < MaxClock
    /\ clock' = clock + 1
    /\ UNCHANGED <<cache, files, max_cached, ret>>
    /\ UNCHANGED fvars
    /\ UNCHANGED cvars
    /\ UNCHANGED tvars

KCreate ==
    /\ \E name \in Names : create_collection(name, Dim)
    /\ UNCHANGED tvars

KCreateWithIvf ==
    /\ \E name \in Names : create_collection_with_ivf(name, Dim, 1)
    /\ UNCHANGED tvars

KGet ==
    /\ \E name \in Names : get_collection(name)
    /\ UNCHANGED tvars

KDelete ==
    /\ \E name \in Names : delete_collection(name)
    /\ UNCHANGED tvars

KWith ==
    /\ \E name \in Names : with_collection(name)
    /\ UNCHANGED tvars

KWithMut ==
    /\ \E name \in Names, f \in Closures : with_collection_mut(name, f)
    /\ UNCHANGED tvars

ClientNext ==
    \/ KCreate
    \/ KCreateWithIvf
    \/ KGet
    \/ KDelete
    \/ KWith
    \/ KWithMut
    \/ Tick

(***************************************************************************)
(* client.rs under threads.  The client is shared by the server's worker   *)
(* threads; each call takes a guard of the RwLock around the cache map     *)
(* (self.collections.write() or .read()) and the guard lives until the     *)
(* scope that took it ends.  A thread's call advances in steps: taking the *)
(* guard, then the code it runs under the guard.                           *)
(***************************************************************************)
\* self.collections.write() returns when no guard is alive.
CanWrite(l) == l = Unlocked

write(l, t) == [l EXCEPT !.writer = t]

\* self.collections.read() returns when no write guard is alive.
CanRead(l) == l.writer = 0

read(l, t) == [l EXCEPT !.readers = @ \cup {t}]

\* The guard of thread t goes out of scope.
Drop(l, t) ==
    [writer |-> IF l.writer = t THEN 0 ELSE l.writer, readers |-> l.readers \ {t}]

\* The lock once f has run, had the guard's scope ended with f.
GuardDroppedAfterClosure(l, t) == Drop(l, t)

\* The lock once f has run in with_collection_mut: the guard `colls` is a
\* local of the function and is alive until it returns.
GuardAfterClosure(l, t) == l

\* The closures the threads pass to with_collection_mut.
ThreadClosures ==
    {f \in Closures : f.kind = "add"}

\* with_collection(name, |coll| ...): what a reader of the vectors gets.
Observe(c) == [ok |-> TRUE, val |-> c.vectors]

Calls ==
    {[op |-> op, name |-> name] :
        op \in {"create_collection", "get_collection", "delete_collection",
                "with_collection"},
        name \in Names}
    \cup {[op |-> "with_collection_mut", name |-> name, f |-> f] :
            name \in Names, f \in ThreadClosures}

\* The position of a thread that has entered call and stands at pc.
Entered(call, pc) ==
    IF call.op = "with_collection_mut"
    THEN [pc |-> pc, op |-> call.op, name |-> call.name, f |-> call.f]
    ELSE [pc |-> pc, op |-> call.op, name |-> call.name]

\* map.insert(key, val)
Put(map, key, val) ==
    Table([k \in DOMAIN map \cup {key} |-> IF k = key THEN val ELSE map[k]])

At(t, op, pc) == thr[t].pc = pc /\ thr[t].op = op

\* Thread t returns from its call: its guard is dropped.
Returns(t) ==
    /\ thr' = [thr EXCEPT ![t] = [pc |-> "idle"]]
    /\ lock' = Drop(lock, t)
    /\ UNCHANGED log

\* Thread t moves on inside its call and the client's data stay as they are.
Moves(t, to, l) ==
    /\ thr' = [thr EXCEPT ![t] = to]
    /\ lock' = l
    /\ UNCHANGED <<files, clock, max_cached, ret, produced, log>>
    /\ UNCHANGED fvars
    /\ UNCHANGED cvars

\* A thread enters a call and takes the guard of its first line: a read
\* guard in with_collection, a write guard in the others.
TBegin(t) ==
    /\ thr[t].pc = "idle"
    /\ \E call \in Calls :
          IF call.op = "with_collection"
          THEN /\ CanRead(lock)
               /\ Moves(t, Entered(call, "reading"), read(lock, t))
          ELSE /\ CanWrite(lock)
               /\ Moves(t, Entered(call, "locked"), write(lock, t))
    /\ UNCHANGED cache

TCreate(t) ==
    /\ At(t, "create_collection", "locked")
    /\ create_collection(thr[t].name, Dim)
    /\ Returns(t)
    /\ UNCHANGED produced

TGet(t) ==
    /\ At(t, "get_collection", "locked")
    /\ get_collection(thr[t].name)
    /\ Returns(t)
    /\ UNCHANGED produced

TDelete(t) ==
    /\ At(t, "delete_collection", "locked")
    /\ delete_collection(thr[t].name)
    /\ Returns(t)
    /\ produced' = Remove(produced, thr[t].name)

\* with_collection under the read guard: a resident collection is read and
\* the call returns; otherwise the read guard's block ends.
TWithRead(t) ==
    /\ At(t, "with_collection", "reading")
    /\ LET name == thr[t].name
       IN  IF name \in DOMAIN cache
           THEN LET out == Observe(cache[name].collection)
                IN  /\ Finish(cache, files,
                              Ret("with_collection", name, out, None, "resident",
                                  <<out>>, FALSE))
                    /\ Returns(t)
                    /\ UNCHANGED produced
           ELSE /\ Moves(t, [thr[t] EXCEPT !.pc = "write"], Drop(lock, t))
                /\ UNCHANGED cache

\* with_collection asks for the write guard.
TWithWrite(t) ==
    /\ At(t, "with_collection", "write")
    /\ CanWrite(lock)
    /\ Moves(t, [thr[t] EXCEPT !.pc = "locked"], write(lock, t))
    /\ UNCHANGED cache

\* with_collection under the write guard: the second residency check, the
\* load, and the read.
TWithLocked(t) ==
    /\ At(t, "with_collection", "locked")
    /\ LET name == thr[t].name
       IN  \E r \in Resolve(name) :
              IF ~r.res.ok
              THEN Finish(r.colls, files,
                          Ret("with_collection", name, r.res, None, "none", <<>>, FALSE))
              ELSE LET out == Observe(r.colls[name].collection)
                   IN  Finish(Touch(r.colls, name), files,
                              Ret("with_collection", name, out, r.victim, r.source,
                                  <<out>>, FALSE))
    /\ Returns(t)
    /\ UNCHANGED produced

\* with_collection_mut up to cached.last_access = Self::now().
TMutResolve(t) ==
    /\ At(t, "with_collection_mut", "locked")
    /\ LET name == thr[t].name
       IN  \E r \in Resolve(name) :
              IF ~r.res.ok
              THEN /\ Finish(r.colls, files,
                             Ret("with_collection_mut", name, r.res, None, "none",
                                 <<>>, FALSE))
                   /\ Returns(t)
                   /\ UNCHANGED produced
              ELSE /\ cache' = Touch(r.colls, name)
                   /\ Moves(t, [pc |-> "closure", op |-> thr[t].op, name |-> name,
                                f |-> thr[t].f, victim |-> r.victim,
                                source |-> r.source], lock)

\* f(&mut cached.collection)
TMutClosure(t) ==
    /\ At(t, "with_collection_mut", "closure")
    /\ LET name == thr[t].name
           a == Apply(thr[t].f, cache[name].collection)
       IN  /\ cache' = [cache EXCEPT ![name].collection = a.coll]
           /\ Moves(t, [pc |-> "persist", op |-> thr[t].op, name |-> name,
                        victim |-> thr[t].victim, source |-> thr[t].source,
                        a |-> a],
                    GuardAfterClosure(lock, t))

\* The `?` on f's result, save_collection and the return.
TMutPersist(t) ==
    /\ At(t, "with_collection_mut", "persist")
    /\ LET name == thr[t].name
           a == thr[t].a
       IN  /\ \E p \in Persist(a, files) :
                 Finish(cache, p.files,
                        Ret("with_collection_mut", name, p.res, thr[t].victim,
                            thr[t].source, <<a.res>>, p.saved))
           /\ produced' = Put(produced, name, a.coll.vectors)
    /\ Returns(t)

\* Two threads over a client with VECTORDB_MAX_CACHED=1 and an empty
\* directory.
ThreadsInit ==
    /\ cache = EmptyMap
    /\ files = EmptyMap
    /\ clock = 0
    /\ max_cached = 1
    /\ ret = [op |-> "new"]
    /\ ThreadsIdle

ThreadsNext ==
    \E t \in Threads :
        \/ TBegin(t)
        \/ TCreate(t)
        \/ TGet(t)
        \/ TDelete(t)
        \/ TWithRead(t)
        \/ TWithWrite(t)
        \/ TWithLocked(t)
        \/ TMutResolve(t)
        \/ TMutClosure(t)
        \/ TMutPersist(t)

(***************************************************************************)
(* The client started over a directory that holds collections, as in       *)
(* scenario S6: X, Y and Z are persisted and none is resident.  The        *)
(* collections are then accessed, up to MaxAccesses times, while the clock *)
(* advances or not.                                                        *)
(***************************************************************************)
MaxLruCached == 2
MaxLruClock == 2
MaxAccesses == 3

LruNames == {"X", "Y", "Z"}

\* What the store holds once create_collection(name, Dim) has returned Ok
\* for every name.
Persisted(names) ==
    Table([name \in names |-> Serialize(CollectionNew(name, Dim))])

LruInit ==
    /\ cache = EmptyMap
    /\ files = Persisted(LruNames)
    /\ clock = 0
    /\ max_cached \in 0..MaxLruCached
    /\ ret = [op |-> "new"]
    /\ ThreadsIdle

\* An access of name is logged, with whether it returned Ok.
Accessed(name) ==
    /\ Len(log) < MaxAccesses
    /\ log' = Append(log, [name |-> name, ok |-> ret'.res.ok])
    /\ UNCHANGED <<lock, thr, produced>>

LGet == \E name \in LruNames : get_collection(name) /\ Accessed(name)

LWith == \E name \in LruNames : with_collection(name) /\ Accessed(name)

LWithMut ==
    \E name \in LruNames, f \in ThreadClosures :
        with_collection_mut(name, f) /\ Accessed(name)

LTick ==
    /\ clock < MaxLruClock
    /\ clock' = clock + 1
    /\ UNCHANGED <<cache, files, max_cached, ret>>
    /\ UNCHANGED fvars
    /\ UNCHANGED cvars
    /\ UNCHANGED tvars

LruNext ==
    \/ LGet
    \/ LWith
    \/ LWithMut
    \/ LTick

(***************************************************************************)
(* The same directory under a client with VECTORDB_MAX_CACHED=2 whose      *)
(* collections are loaded by get_collection and read by with_collection,   *)
(* up to MaxReads calls in all.                                            *)
(***************************************************************************)
MaxReads == 4

ReadsInit ==
    /\ cache = EmptyMap
    /\ files = Persisted(LruNames)
    /\ clock = 0
    /\ max_cached = 2
    /\ ret = [op |-> "new"]
    /\ ThreadsIdle

\* A call is logged with where it found the collection.
Logged ==
    /\ Len(log) < MaxReads
    /\ log' = Append(log, [name |-> ret'.name, op |-> ret'.op,
                           source |-> ret'.source])
    /\ UNCHANGED <<lock, thr, produced>>

RGet == \E name \in LruNames : get_collection(name) /\ Logged

RWith == \E name \in LruNames : with_collection(name) /\ Logged

ReadsNext ==
    \/ RGet
    \/ RWith
    \/ LTick

(***************************************************************************)
(* Specifications.                                                         *)
(***************************************************************************)
InitFilter == FilterInit /\ CollIdle /\ ClientIdle

InitIndex == IndexInit /\ EvaluationIdle /\ KMeansIdle /\ CollIdle /\ ClientIdle

InitKMeans == KMeansInit /\ EvaluationIdle /\ IndexIdle /\ CollIdle /\ ClientIdle

SpecKMeans == InitKMeans /\ [][KMeansNext]_vars

SpecIndex == InitIndex /\ [][IndexNext]_vars

SpecFilter == InitFilter /\ [][Evaluate]_vars

InitColl == CollInit /\ FilterIdle /\ ClientIdle

SpecColl == InitColl /\ [][CollNext]_vars

\* Scenario S5: the collection holds 1000 vectors under a fresh index and
\* receives adds of 50 and of 51 vectors, 101 in all.
S5Init ==
    /\ cin \in Inputs({1000}, {50, 51}, 101, 101)
    /\ \E use_ivf \in BOOLEAN :
          coll = Prebuilt(cin.base, use_ivf, IF use_ivf THEN 1 ELSE 0)
    /\ cop = [op |-> "init"]

InitS5 == S5Init /\ FilterIdle /\ ClientIdle

\* The scenario adds vectors of the collection's dimension and deletes none.
S5Next ==
    \/ CBeginBatch
    \/ CEndBatch
    \/ CAdd
    \/ CRebuildIndex
    \/ CQuery
    \/ CReload

SpecS5 == InitS5 /\ [][S5Next]_vars

InitOps == OpsInit /\ FilterIdle /\ ClientIdle

SpecOps == InitOps /\ [][OpsNext]_vars

InitQuery == QueryInit /\ FilterIdle /\ ClientIdle

SpecQuery == InitQuery /\ [][QueryNext]_vars

\* The server goes on serving requests: a request that can be served is
\* served in the end.
SpecQueryFair == InitQuery /\ [][QueryNext]_vars /\ WF_vars(QueryNext)

InitClient == ClientInit /\ FilterIdle /\ CollIdle

SpecClient == InitClient /\ [][ClientNext]_vars

InitThreads == ThreadsInit /\ FilterIdle /\ CollIdle

SpecThreads == InitThreads /\ [][ThreadsNext]_vars

InitLru == LruInit /\ FilterIdle /\ CollIdle

InitReads == ReadsInit /\ FilterIdle /\ CollIdle

SpecReads == InitReads /\ [][ReadsNext]_vars

SpecLru == InitLru /\ [][LruNext]_vars

(***************************************************************************)
(* The filter semantics as the design states them, clause by clause.       *)
(***************************************************************************)
NeHolds(meta_val, v) == meta_val.some /\ ~MVEq(meta_val.v, v)
InHolds(meta_val, list) == meta_val.some /\ Contains(list, meta_val.v)
NinHolds(meta_val, list) == ~meta_val.some \/ ~Contains(list, meta_val.v)

ClauseCount(fv) ==
    (IF fv.ne.some THEN 1 ELSE 0) + (IF fv.in_values.some THEN 1 ELSE 0)
        + (IF fv.nin.some THEN 1 ELSE 0)

AllClausesHold(meta_val, fv) ==
    /\ fv.ne.some => NeHolds(meta_val, fv.ne.v)
    /\ fv.in_values.some => InHolds(meta_val, fv.in_values.v)
    /\ fv.nin.some => NinHolds(meta_val, fv.nin.v)

ReferenceField(meta_val, fv) ==
    IF fv.kind = "Direct"
    THEN meta_val.some /\ MVEq(meta_val.v, fv.expected)
    ELSE AllClausesHold(meta_val, fv)

Reference(metadata, filter) ==
    \A key \in DOMAIN filter : ReferenceField(MapGet(metadata, key), filter[key])

SimpleFilter(filter) ==
    \A key \in DOMAIN filter :
        filter[key].kind = "Direct" \/ ClauseCount(filter[key]) <= 1

\* C1: when matches_filter returns true, every field whose value is an
\* Operator carrying two or more of $ne, $in, $nin has all of its clauses
\* holding for that field of the metadata (the clauses of one operator are
\* applied conjunctively; a value in both the $in and the $nin list does
\* not match).
C1_OperatorClausesConjunctive ==
    (fresult.some /\ fresult.v) =>
        \A key \in DOMAIN ffilter :
            (ffilter[key].kind = "Operator" /\ ClauseCount(ffilter[key]) >= 2)
                => AllClausesHold(MapGet(fmeta, key), ffilter[key])

\* C2: on a filter whose fields each carry a Direct value or an Operator
\* with at most one clause, matches_filter returns what the reference
\* evaluator returns (Direct: present and equal; $ne: present and different;
\* $in: present and a member; $nin: absent or not a member; fields combine
\* with AND; the empty filter matches).
C2_SimpleFilterAgreesWithReference ==
    (fresult.some /\ SimpleFilter(ffilter)) =>
        fresult.v = Reference(fmeta, ffilter)

\* A filter of two fields was evaluated to true: one field is a $nin clause
\* on a key the metadata lacks, the other a Direct value.
C2_Witness ==
    /\ fresult.some /\ fresult.v
    /\ DOMAIN ffilter = FKeys
    /\ SimpleFilter(ffilter)
    /\ \E key \in FKeys :
          /\ ffilter[key].kind = "Operator"
          /\ ffilter[key].nin.some
          /\ key \notin DOMAIN fmeta
    /\ \E key \in FKeys : ffilter[key].kind = "Direct"

(***************************************************************************)
(* The collection's index bookkeeping.                                     *)
(***************************************************************************)
\* The step is a call of op that returned Ok.
Returned(op) == cop'.op = op /\ cop'.res.ok

\* The smallest integer that is at least n / 10.
CeilTenth(n) == (n + 9) \div 10

\* C6: a rebuild_index step leaves the collection as it was unless use_ivf
\* and needs_rebuild hold before it; when they hold, the step ends with
\* needs_rebuild = false and modifications_count = 0, whatever the count
\* (0 included) and also on a collection loaded back from the store.
C6_RebuildIndexClears ==
    [][Returned("rebuild_index") =>
          IF coll.config.use_ivf /\ coll.needs_rebuild
          THEN ~coll'.needs_rebuild /\ coll'.modifications_count = 0
          ELSE coll' = coll]_vars

\* C7: a query on an IVF collection with needs_rebuild = true and count > 0
\* rebuilds exactly when modifications_count >= max(10, ceil(0.1 * count)):
\* below the threshold needs_rebuild stays true and modifications_count is
\* unchanged, at or above it the query ends with needs_rebuild = false and
\* modifications_count = 0.
C7_QueryRebuildsAtCeilThreshold ==
    [][(/\ Returned("query")
        /\ coll.config.use_ivf
        /\ coll.needs_rebuild
        /\ count(coll) > 0) =>
          IF coll.modifications_count >= Max2(10, CeilTenth(count(coll)))
          THEN ~coll'.needs_rebuild /\ coll'.modifications_count = 0
          ELSE /\ coll'.needs_rebuild
               /\ coll'.modifications_count = coll.modifications_count]_vars

\* The collection of scenario S5 after its first add: the 1000 vectors and
\* 50 new ones, 50 modifications since the index was built.
S5AfterFirstAdd ==
    /\ coll.config.use_ivf /\ coll.ivf_index.some /\ coll.needs_rebuild
    /\ cin.base = 1000
    /\ count(coll) = cin.base + 50
    /\ coll.modifications_count = 50

\* The collection of scenario S5 after its second add: 51 more vectors, 101
\* modifications since the index was built.
S5AfterSecondAdd ==
    /\ coll.config.use_ivf /\ coll.ivf_index.some /\ coll.needs_rebuild
    /\ cin.base = 1000
    /\ count(coll) = cin.base + 50 + 51
    /\ coll.modifications_count = 50 + 51

S5FirstQueryKeeps ==
    (S5AfterFirstAdd /\ Returned("query")) =>
        coll'.needs_rebuild /\ coll'.modifications_count = coll.modifications_count

\* C8 as stated: in scenario S5 the query after the first 50 vectors leaves
\* needs_rebuild = true and does not rebuild, and the query after the 51
\* further vectors rebuilds: it ends with needs_rebuild = false and
\* modifications_count = 0.
C8_S5SecondQueryRebuilds ==
    [][/\ S5FirstQueryKeeps
       /\ (S5AfterSecondAdd /\ Returned("query")) =>
              ~coll'.needs_rebuild /\ coll'.modifications_count = 0]_vars

\* C8 amended: in scenario S5 neither query rebuilds.  After the 51 further
\* vectors the collection holds 1101 vectors, the threshold is 110 and the
\* 101 modifications stay below it: the query leaves needs_rebuild = true,
\* modifications_count = 101 and the index as it was.
C8_S5SecondQueryKeeps ==
    [][/\ S5FirstQueryKeeps
       /\ (S5AfterSecondAdd /\ Returned("query")) =>
              /\ coll'.needs_rebuild
              /\ coll'.modifications_count = 50 + 51
              /\ coll'.ivf_index = coll.ivf_index]_vars

\* The second query of scenario S5 has returned.
C8_Witness ==
    /\ S5AfterSecondAdd
    /\ cop.op = "query" /\ cop.res.ok

(***************************************************************************)
(* The client: cache and store.                                            *)
(***************************************************************************)
\* ret records a call of the client.
Called == ret.op \notin {"idle", "new"}

Residents == Cardinality(DOMAIN cache)

\* What the store holds for name is the collection c in config, vectors and
\* metadata.
StoreHolds(name, c) ==
    /\ name \in DOMAIN files
    /\ IF files[name] = Truncated THEN FALSE
       ELSE /\ files[name].config = c.config
            /\ files[name].vectors = c.vectors

\* C3: after any sequence of client calls and for every value of
\* max_cached, the cache holds at most max_cached collections.
C3_CacheWithinMaxCached == Residents <= max_cached

\* C4: whenever a call evicts a collection from the cache, the store holds
\* that collection as it was in memory (config, vectors, metadata): it was
\* persisted before the eviction, also after with_collection_mut calls
\* whose closure returned an error or whose save failed.
C4_EvictedWasPersisted ==
    (Called /\ ret.evicted.some) =>
        StoreHolds(ret.evicted.v.name, ret.evicted.v.collection)

\* C5: every resident collection, reloaded ones included, has an IVF index
\* object exactly when its use_ivf is set (invariant C).
C5_IvfPresence ==
    \A name \in DOMAIN cache :
        cache[name].collection.config.use_ivf <=> cache[name].collection.ivf_index.some

\* C9: when with_collection_mut returns Ok, the collection was resident or
\* loaded from the store, the closure ran exactly once, the returned value
\* is the closure's result, and what the store holds for the name is the
\* serialized form of the collection as it is in memory after the closure.
C9_OkMeansRunOnceAndSaved ==
    (Called /\ ret.op = "with_collection_mut" /\ ret.res.ok) =>
        /\ ret.source \in {"resident", "loaded"}
        /\ Len(ret.runs) = 1
        /\ ret.res = ret.runs[1]
        /\ ret.saved
        /\ ret.name \in DOMAIN cache
        /\ ret.name \in DOMAIN files
        /\ files[ret.name] = Serialize(cache[ret.name].collection)

\* with_collection_mut loaded a collection from the store, the closure
\* added a vector to it and the call returned Ok.
C9_Witness ==
    /\ Called /\ ret.op = "with_collection_mut" /\ ret.res.ok
    /\ ret.source = "loaded"
    /\ ret.name \in DOMAIN cache
    /\ count(cache[ret.name].collection) > 0

\* C10: when the closure passed to with_collection_mut returns an error,
\* save_collection is not called, the store is left as it was before the
\* call, and with_collection_mut returns the closure's error.
C10_ClosureErrorSkipsSave ==
    [][(/\ ret'.op = "with_collection_mut"
        /\ Len(ret'.runs) = 1
        /\ ~ret'.runs[1].ok) =>
          /\ ~ret'.saved
          /\ files' = files
          /\ ret'.res = ret'.runs[1]]_vars

\* The closure of a with_collection_mut call failed after it had changed
\* the collection: memory and store differ for that name.
C10_Witness ==
    /\ Called /\ ret.op = "with_collection_mut"
    /\ Len(ret.runs) = 1 /\ ~ret.runs[1].ok
    /\ ret.name \in DOMAIN cache /\ ret.name \in DOMAIN files
    /\ files[ret.name] # Serialize(cache[ret.name].collection)

(***************************************************************************)
(* The client under threads.                                               *)
(***************************************************************************)
\* Thread t is inside with_collection_mut, past the first line: at the
\* residency check, at f, or at the save.
InMut(t) ==
    /\ thr[t].pc \in {"locked", "closure", "persist"}
    /\ thr[t].op = "with_collection_mut"

\* C11: from before the residency check of with_collection_mut until its
\* return, after the save, the calling thread holds the write guard alone
\* and no other thread takes a step of any call on the client: none reads
\* or changes the cache map or a resident collection while f or the save
\* runs.
C11_MutHoldsLockThroughSave ==
    [][\A t \in Threads :
          InMut(t) =>
              /\ lock = [writer |-> t, readers |-> {}]
              /\ \A u \in Threads \ {t} :
                    /\ thr'[u] = thr[u]
                    /\ thr[u].pc \in {"idle", "write"}
              /\ (cache' # cache \/ files' # files \/ ret' # ret) =>
                    thr'[t] # thr[t]]_vars

\* A with_collection_mut has run f and is about to save while another
\* thread, in with_collection, waits for the write guard.
C11_Witness ==
    \E t \in Threads, u \in Threads :
        /\ InMut(t) /\ thr[t].pc = "persist" /\ thr[t].a.res.ok
        /\ thr[u].pc = "write" /\ thr[u].name = thr[t].name

\* C12: a with_collection on a name that starts after a with_collection_mut
\* on that name has returned observes the vectors and metadata the most
\* recent such with_collection_mut left, also when the collection was
\* evicted and reloaded from the store in between.
C12_ReadSeesLastMut ==
    (ret.op = "with_collection" /\ ret.res.ok /\ ret.name \in DOMAIN produced) =>
        ret.res.val = produced[ret.name]

(***************************************************************************)
(* The cache under LRU pressure.                                           *)
(***************************************************************************)
\* The step inserts name into the cache.
Inserts(name) == name \notin DOMAIN cache /\ name \in DOMAIN cache'

\* The step removes exactly one of the entries that were resident, one of
\* minimal last_access among them, and name is resident after it.
EvictsOneOldest(name) ==
    \E v \in DOMAIN cache :
        /\ DOMAIN cache' = (DOMAIN cache \ {v}) \cup {name}
        /\ cache[v].last_access = SetMin({cache[n].last_access : n \in DOMAIN cache})

\* The step removes no entry.
EvictsNone(name) == DOMAIN cache' = DOMAIN cache \cup {name}

C14_S6EvictsX ==
    (/\ max_cached = 2
     /\ log = <<[name |-> "X", ok |-> TRUE], [name |-> "Y", ok |-> TRUE],
                [name |-> "Z", ok |-> TRUE]>>) =>
        DOMAIN cache = {"Y", "Z"}

(***************************************************************************)
(* The client's calls one by one.                                          *)
(***************************************************************************)
\* The step is a call of op (a step that leaves the clock alone is a call).
IsCall(op) == ret'.op = op /\ clock' = clock

\* C15: create_collection and create_collection_with_ivf fail with
\* CollectionAlreadyExists when the name is resident in the cache or exists
\* in the store, and then leave cache and store as they were; otherwise,
\* when they return Ok, the new empty collection is resident in the cache
\* and persisted in the store.
C15_CreateChecksCacheAndStore ==
    [][(IsCall("create_collection") \/ IsCall("create_collection_with_ivf")) =>
          LET name == ret'.name
          IN  IF name \in DOMAIN cache \/ name \in DOMAIN files
              THEN /\ ret'.res = Err("CollectionAlreadyExists")
                   /\ cache' = cache
                   /\ files' = files
              ELSE /\ ret'.res # Err("CollectionAlreadyExists")
                   /\ ret'.res.ok =>
                         /\ name \in DOMAIN cache'
                         /\ cache'[name].collection.config.name = name
                         /\ cache'[name].collection.config.use_ivf =
                                (ret'.op = "create_collection_with_ivf")
                         /\ count(cache'[name].collection) = 0
                         /\ name \in DOMAIN files'
                         /\ files'[name] = Serialize(cache'[name].collection)]_vars

\* A create on a name that the store holds and the cache does not (the
\* collection was evicted) failed with CollectionAlreadyExists.
C15_Witness ==
    /\ ret.op \in {"create_collection", "create_collection_with_ivf"}
    /\ ret.res = Err("CollectionAlreadyExists")
    /\ ret.name \notin DOMAIN cache
    /\ ret.name \in DOMAIN files

\* C16: after delete_collection(name) has returned Ok, name is neither
\* resident in the cache nor present in the store; a get_collection,
\* with_collection or with_collection_mut on name that follows fails with
\* CollectionNotFound and changes nothing, and a create on name that
\* follows is not refused: it returns Ok, or the error of its own
\* save_collection.
C16_DeleteRemovesBoth ==
    [][(ret.op = "delete_collection" /\ ret.res.ok) =>
          /\ ret.name \notin DOMAIN cache
          /\ ret.name \notin DOMAIN files
          /\ (clock' = clock /\ ret'.name = ret.name) =>
                CASE ret'.op \in {"get_collection", "with_collection",
                                  "with_collection_mut"} ->
                        /\ ret'.res = Err("CollectionNotFound")
                        /\ cache' = cache
                        /\ files' = files
                  [] ret'.op \in {"create_collection", "create_collection_with_ivf"} ->
                        /\ ret'.saved
                        /\ ret'.res.ok \/ ret'.res.err \in {"Io", "Serialization"}
                        /\ ret'.res.ok =>
                              ret.name \in DOMAIN cache' /\ ret.name \in DOMAIN files'
                  [] OTHER -> TRUE]_vars

\* delete_collection returned Ok on a collection that was resident.
C16_Witness ==
    /\ ret.op = "delete_collection" /\ ret.res.ok
    /\ ret.source = "resident"
    /\ ret.name \notin DOMAIN cache
    /\ ret.name \notin DOMAIN files

\* C17: delete_collection on a name that is neither resident in the cache
\* nor present in the store returns CollectionNotFound.
C17_DeleteUnknownFails ==
    [][(/\ IsCall("delete_collection")
        /\ ret'.name \notin DOMAIN cache
        /\ ret'.name \notin DOMAIN files) =>
          ret'.res = Err("CollectionNotFound")]_vars

\* C18: get_collection(name) on a resident name returns Ok and changes
\* nothing but that entry's last_access, set to now; on a name that is not
\* resident it loads the collection from the store and makes it resident,
\* stamped with now; when the load fails (CollectionNotFound for a name the
\* store does not hold) it returns the load's error and leaves the cache as
\* it was: nothing is evicted and no last_access is changed.
C18_GetLoadsOrRefreshes ==
    [][IsCall("get_collection") =>
          LET name == ret'.name
          IN  /\ files' = files
              /\ IF name \in DOMAIN cache
                 THEN /\ ret'.res.ok
                      /\ cache' = [cache EXCEPT ![name].last_access = clock]
                 ELSE IF ret'.res.ok
                 THEN /\ name \in DOMAIN cache'
                      /\ cache'[name].last_access = clock
                      /\ StoreHolds(name, cache'[name].collection)
                 ELSE /\ cache' = cache
                      /\ ret'.res.err \in {"CollectionNotFound", "Io", "Serialization"}
                      /\ name \notin DOMAIN files =>
                            ret'.res = Err("CollectionNotFound")]_vars

\* get_collection failed with CollectionNotFound on a full cache: the
\* resident entry is still there.
C18_Witness ==
    /\ ret.op = "get_collection"
    /\ ret.res = Err("CollectionNotFound")
    /\ max_cached > 0
    /\ Residents = max_cached

(***************************************************************************)
(* The collection's entries and bookkeeping.                               *)
(***************************************************************************)
\* C19: after any sequence of add, update, delete, query and rebuild_index
\* calls, successful or failing, every stored entry has an embedding of
\* length exactly D; an add holding an embedding of another length fails
\* with DimensionMismatch{expected = D, actual = that length}, and that
\* embedding is not stored.
C19_StoredEmbeddingsHaveDimension ==
    /\ \A id \in DOMAIN coll.vectors :
          Len(coll.vectors[id].embedding) = coll.config.dimension
    /\ (cop.op = "add" /\ ~cop.res.ok) =>
          cop.res = DimensionMismatch(coll.config.dimension, Len(BadEmbedding))

\* An add failed with DimensionMismatch after it had stored the entries
\* that preceded the embedding of the wrong length.
C19_Witness ==
    /\ cop.op = "add" /\ ~cop.res.ok
    /\ count(coll) > 0
    /\ cin.base = 0

\* C20: a successful add(ids, embeddings, metadatas) increases
\* modifications_count by |ids| on every collection, IVF or linear, and
\* sets needs_rebuild exactly when use_ivf and not batch_mode; otherwise
\* needs_rebuild is left as it was.  (The ids added are new ones, so |ids|
\* is the growth of the count.)
C20_AddCountsModifications ==
    [][Returned("add") =>
          /\ coll'.modifications_count =
                 coll.modifications_count + (count(coll') - count(coll))
          /\ coll'.needs_rebuild =
                 IF coll.config.use_ivf /\ ~coll.batch_mode
                 THEN TRUE
                 ELSE coll.needs_rebuild]_vars

\* C21: while batch_mode is true no add or delete turns needs_rebuild from
\* false to true; end_batch clears batch_mode and sets needs_rebuild to
\* true iff modifications_count > 0 and use_ivf, and leaves it as it was
\* otherwise.
C21_BatchDefersRebuildFlag ==
    [][/\ (coll.batch_mode /\ cop'.op \in {"add", "delete"}) =>
              (coll'.needs_rebuild => coll.needs_rebuild)
       /\ cop'.op = "end_batch" =>
              /\ ~coll'.batch_mode
              /\ coll'.needs_rebuild =
                     IF coll.modifications_count > 0 /\ coll.config.use_ivf
                     THEN TRUE
                     ELSE coll.needs_rebuild]_vars

\* An IVF collection in batch mode has taken an add or a delete and still
\* has needs_rebuild false.
C21_Witness ==
    /\ coll.config.use_ivf /\ coll.batch_mode
    /\ cop.op \in {"add", "delete"} /\ cop.res.ok
    /\ coll.modifications_count > 0
    /\ ~coll.needs_rebuild

\* C22: update(ids, metadatas) with sequences of equal length fails with
\* VectorNotFound(id), id one of the given ids that are not stored, when
\* there is such an id; otherwise it succeeds and every entry's metadata is
\* the old map with the keys given for its id overwritten by the values
\* given and every other key kept.  In both cases the stored ids, the
\* embeddings, needs_rebuild and modifications_count are left unchanged.
C22_UpdateMergesMetadata ==
    [][cop'.op = "update" =>
          LET ids == cop'.ids
              metadatas == cop'.metadatas
              positions == 1..Len(ids)
              missing == {ids[i] : i \in positions} \ DOMAIN coll.vectors
              given(id) == {metadatas[i] : i \in {j \in positions : ids[j] = id}}
              keys(id) == UNION {DOMAIN m : m \in given(id)}
          IN  Len(ids) = Len(metadatas) =>
                /\ IF missing # {}
                   THEN /\ ~cop'.res.ok
                        /\ cop'.res.err = "VectorNotFound"
                        /\ cop'.res.id \in missing
                   ELSE /\ cop'.res = Ok
                        /\ \A id \in DOMAIN coll.vectors :
                              LET old == coll.vectors[id].metadata
                                  new == coll'.vectors[id].metadata
                              IN  /\ DOMAIN new = DOMAIN old \cup keys(id)
                                  /\ \A k \in keys(id) :
                                        \E m \in given(id) :
                                            k \in DOMAIN m /\ new[k] = m[k]
                                  /\ \A k \in DOMAIN old \ keys(id) :
                                        new[k] = old[k]
                /\ DOMAIN coll'.vectors = DOMAIN coll.vectors
                /\ \A id \in DOMAIN coll.vectors :
                      coll'.vectors[id].embedding = coll.vectors[id].embedding
                /\ coll'.needs_rebuild = coll.needs_rebuild
                /\ coll'.modifications_count = coll.modifications_count]_vars

\* A successful update that gave one key of an entry holding two: the key
\* given has the value given and the other key is still there.
C22_Witness ==
    /\ cop.op = "update" /\ cop.res.ok
    /\ cop.ids = <<1>>
    /\ DOMAIN cop.metadatas[1] = {"kind"}
    /\ DOMAIN coll.vectors[1].metadata = {"kind", "tag"}
    /\ coll.vectors[1].metadata["kind"] = cop.metadatas[1]["kind"]

\* C23: delete(ids) never fails, removes exactly the listed ids that are
\* stored and leaves every other entry as it was, increases
\* modifications_count by |ids| whether or not the ids were stored, and
\* makes needs_rebuild true when use_ivf and not batch_mode.
C23_DeleteRemovesAndCounts ==
    [][cop'.op = "delete" =>
          LET ids == cop'.ids
              listed == {ids[i] : i \in 1..Len(ids)}
          IN  /\ cop'.res = Ok
              /\ DOMAIN coll'.vectors = DOMAIN coll.vectors \ listed
              /\ \A id \in DOMAIN coll'.vectors :
                    coll'.vectors[id] = coll.vectors[id]
              /\ coll'.modifications_count =
                     coll.modifications_count + Len(ids)
              /\ (coll.config.use_ivf /\ ~coll.batch_mode) =>
                     coll'.needs_rebuild]_vars

\* The same without the count of modifications.
C23_DeleteRemoves ==
    [][cop'.op = "delete" =>
          LET ids == cop'.ids
              listed == {ids[i] : i \in 1..Len(ids)}
          IN  /\ cop'.res = Ok
              /\ DOMAIN coll'.vectors = DOMAIN coll.vectors \ listed
              /\ \A id \in DOMAIN coll'.vectors :
                    coll'.vectors[id] = coll.vectors[id]
              /\ coll.config.use_ivf =>
                    coll'.modifications_count =
                        coll.modifications_count + Len(ids)
              /\ (coll.config.use_ivf /\ ~coll.batch_mode) =>
                     coll'.needs_rebuild]_vars

\* The query a step has answered with a list.
Answered == cop'.op = "query" /\ cop'.res.ok

\* C24: every successful query, on the linear and on the IVF path, returns
\* at most k results of pairwise distinct ids in ascending distance, each
\* one a stored entry (its id, its metadata, its distance to the normalized
\* query) whose metadata satisfies the filter.
C24_QueryResultsAreSound ==
    [][Answered =>
          LET results == cop'.res.val
              q == normalize_l2(cop'.query_embedding)
          IN  /\ Len(results) <= cop'.n_results
              /\ \A i, j \in 1..Len(results) :
                    /\ i # j => results[i].id # results[j].id
                    /\ i < j => results[i].distance <= results[j].distance
              /\ \A i \in 1..Len(results) :
                    /\ results[i].id \in DOMAIN coll'.vectors
                    /\ results[i] = SearchResult(coll'.vectors[results[i].id], q)
                    /\ Passes(results[i].metadata, cop'.where_filter)]_vars

\* A filtered query over the built index has returned two results, fewer
\* than the stored entries that pass the filter.
C24_Witness ==
    /\ cop.op = "query" /\ cop.res.ok
    /\ UsesIndex(coll)
    /\ cop.where_filter.some
    /\ cop.n_results = 2
    /\ Len(cop.res.val) = 2
    /\ Cardinality({id \in DOMAIN coll.vectors :
                       Passes(coll.vectors[id].metadata, cop.where_filter)}) > 2

\* The distances of the stored entries that pass the filter, ascending: the
\* reference search computes every distance, sorts and keeps the first k.
ReferenceDistances(c, query_embedding, where_filter) ==
    LET q == normalize_l2(query_embedding)
        matching == {id \in DOMAIN c.vectors :
                        Passes(c.vectors[id].metadata, where_filter)}
        all == Table([i \in 1..Cardinality(matching) |->
                   SearchResult(c.vectors[Ascending(matching)[i]], q)])
        sorted == SortedBy(all, Distances(all))
    IN  Table([i \in 1..Len(sorted) |-> sorted[i].distance])

\* C25: on the linear path (a linear collection, or an IVF collection
\* whose index is not built) a query returns min(k, m) results, m the
\* number of stored entries that pass the filter, and their distances are
\* the min(k, m) smallest distances of those entries: the result of the
\* reference search up to the choice among entries of equal distance.
\* This holds on the branch k < m / 4 (partial selection) and on the
\* branch of the full sort, k = 0 included.
C25_LinearQueryIsExact ==
    [][(Answered /\ ~UsesIndex(coll')) =>
          LET results == cop'.res.val
              reference == ReferenceDistances(coll', cop'.query_embedding,
                                              cop'.where_filter)
          IN  /\ Len(results) = Min2(cop'.n_results, Len(reference))
              /\ \A i \in 1..Len(results) : results[i].distance = reference[i]]_vars

\* A linear query for one result among at least eight entries (the branch
\* of the partial selection) whose two closest entries are equally far.
C25_Witness ==
    /\ cop.op = "query" /\ cop.res.ok
    /\ ~UsesIndex(coll)
    /\ cop.n_results = 1
    /\ Len(cop.res.val) = 1
    /\ LET reference == ReferenceDistances(coll, cop.query_embedding,
                                           cop.where_filter)
       IN  /\ 1 < Len(reference) \div 4
           /\ reference[1] = reference[2]

\* The sets of ids a query (q, k, filter) on c can return, over the orders
\* of the HashMap and the outcomes of the partial selection.
QueryOutcomes(c, q, k, f) ==
    {LET results == query_with_results(c, q, k, f, order, QuerySeeds(c), nth).res.val
     IN  {results[i].id : i \in 1..Len(results)} :
        order \in Orders(c),
        nth \in UNION {NthChoices(Searched(c, normalize_l2(q), f, o), k) :
                          o \in Orders(c)}}

\* The collection loaded back answers as the collection saved: whatever a
\* query could return before the save, it can return after the load.
SameAnswers(before, after) ==
    \A q \in {e \in QueryEmbeddings : Len(e) = Dim}, k \in NResults,
       f \in WhereFilters :
        QueryOutcomes(before, q, k, f) \subseteq QueryOutcomes(after, q, k, f)

\* C26: saving a collection and loading it back yields a collection equal
\* in config, vectors and metadata, with needs_rebuild true when it uses
\* IVF, and a query (q, k, filter) on the collection loaded returns the
\* top-k ids the same query returned before the save.
C26_ReloadKeepsQueryResults ==
    [][cop'.op = "reload" =>
          /\ cop'.res = Ok
          /\ coll'.config = coll.config
          /\ coll'.vectors = coll.vectors
          /\ coll.config.use_ivf => coll'.needs_rebuild
          /\ SameAnswers(coll, coll')]_vars

\* The same for the collections whose queries do not go through the index.
C26_ReloadKeepsLinearResults ==
    [][cop'.op = "reload" =>
          /\ cop'.res = Ok
          /\ coll'.config = coll.config
          /\ coll'.vectors = coll.vectors
          /\ coll.config.use_ivf => coll'.needs_rebuild
          /\ ~UsesIndex(coll) => SameAnswers(coll, coll')]_vars

\* The ids in the inverted lists of c's index.
Listed(c) ==
    LET lists == c.ivf_index.v.inverted_lists
    IN  UNION {{lists[j][p] : p \in 1..Len(lists[j])} : j \in DOMAIN lists}

\* C27: on an IVF collection with a built index, delete leaves the index
\* as it is, so the deleted ids stay in the inverted lists until a
\* rebuild; no query returns an id that is listed but no longer stored,
\* and an id that was deleted is returned again once it has been added
\* again, not before: every id returned is stored at that moment.
C27_DeletedIdsAreNotReturned ==
    [][/\ (cop'.op = "delete" /\ UsesIndex(coll)) =>
              coll'.ivf_index = coll.ivf_index
       /\ (Answered /\ UsesIndex(coll')) =>
              \A i \in 1..Len(cop'.res.val) :
                  /\ cop'.res.val[i].id \notin Listed(coll') \ DOMAIN coll'.vectors
                  /\ cop'.res.val[i].id \in DOMAIN coll'.vectors]_vars

\* Id 1 is deleted and still listed, and a query for the vector id 1 had
\* has been answered from the index with another id.
C27_Witness ==
    /\ cop.op = "query" /\ cop.res.ok
    /\ UsesIndex(coll)
    /\ 1 \in Listed(coll) \ DOMAIN coll.vectors
    /\ normalize_l2(cop.query_embedding) = Direction(1)
    /\ Len(cop.res.val) > 0

\* Id 1 was deleted and added again without a rebuild in between, and the
\* index returns it.
C27_ReturnedAfterAddedAgain ==
    /\ cop.op = "query" /\ cop.res.ok
    /\ UsesIndex(coll)
    /\ coll.needs_rebuild /\ coll.modifications_count >= 2
    /\ 1 \in Listed(coll) \cap DOMAIN coll.vectors
    /\ QueryBase + 1 \notin DOMAIN coll.vectors
    /\ Len(cop.res.val) > 0
    /\ cop.res.val[1].id = 1

\* C28: the number of clusters probed is configurable: an IVF collection
\* created through new_with_ivf comes to a state in which its index has an
\* n_probe other than the default.
C28_NProbeGetsConfigured ==
    coll.config.use_ivf =>
        <>(coll.ivf_index.some /\ coll.ivf_index.v.n_probe # DefaultNProbe)

\* Whatever is done to a collection, its index, when it has one, probes the
\* default number of clusters.
C28_NProbeStaysDefault ==
    coll.ivf_index.some => coll.ivf_index.v.n_probe = DefaultNProbe

\* clamp(C, 1, floor(N / 10)); below ten entries, where the upper limit is
\* under the lower one, the lower one is taken.
Clamped(C, N) == IF N \div 10 < 1 THEN 1 ELSE Max2(1, Min2(C, N \div 10))

\* The inverted lists of the index are those of a build on data: as many
\* lists as centroids, C' = clamp(C, 1, floor(N / 10)) of them, every id
\* of data in exactly one place of one list and no other id in any.
ListsOf(x, data) ==
    LET lists == x.inverted_lists
        places == {<<j, p>> \in (DOMAIN lists) \X (1..Len(data)) : p <= Len(lists[j])}
    IN  /\ Len(lists) = Len(x.centroids)
        /\ Len(lists) = Clamped(x.n_clusters, Len(data))
        /\ \A i \in 1..Len(data) :
              Cardinality({pl \in places : lists[pl[1]][pl[2]] = data[i].id}) = 1
        /\ \A pl \in places :
              \E i \in 1..Len(data) : lists[pl[1]][pl[2]] = data[i].id
        /\ \A j \in DOMAIN lists : Len(lists[j]) <= Len(data)

\* C29 as stated: in every reachable state of an IVFIndex, fresh from
\* new(C), after with_n_probe and after any builds, there are as many
\* inverted lists as centroids; and after a build on N >= 1 entries of
\* distinct ids the lists are those of that build.
C29_ListsMatchCentroids ==
    /\ Len(index.inverted_lists) = Len(index.centroids)
    /\ iop.built # <<>> => ListsOf(index, iop.built)

\* C29 amended: an index that has been built on N >= 1 entries of distinct
\* ids has as many inverted lists as centroids, C' of them, holding every
\* id of the last such build in exactly one list and no other id; an index
\* never built so has no centroid and the C empty lists new(C) gave it.
C29_ListsMatchCentroidsOnceBuilt ==
    /\ iop.built # <<>> => ListsOf(index, iop.built)
    /\ iop.built = <<>> =>
          /\ index.centroids = <<>>
          /\ Len(index.inverted_lists) = index.n_clusters
          /\ \A j \in 1..index.n_clusters : index.inverted_lists[j] = <<>>

\* An index built on twenty entries, then on twenty others into two
\* clusters: its lists hold the ids of the second build.
C29_Witness ==
    /\ iop.op = "build"
    /\ Len(iop.built) = 20
    /\ iop.built[1].id = 101
    /\ Len(index.centroids) = 2
    /\ index.inverted_lists[1] # <<>>
    /\ index.inverted_lists[2] # <<>>

\* C30: with_n_probe(P) clamps P to [1, n_clusters]: for every P >= 0 (and
\* n_clusters >= 1) the n_probe it leaves is at least 1 and at most
\* n_clusters, and it is P when P is in that range.
C30_NProbeClamped ==
    [][(iop'.op = "with_n_probe" /\ index.n_clusters >= 1) =>
          /\ 1 <= index'.n_probe
          /\ index'.n_probe <= index.n_clusters
          /\ iop'.n_probe \in 1..index.n_clusters =>
                index'.n_probe = iop'.n_probe]_vars

\* The same without the lower limit.
C30_NProbeAtMostClusters ==
    [][iop'.op = "with_n_probe" =>
          /\ index'.n_probe <= index.n_clusters
          /\ iop'.n_probe <= index.n_clusters =>
                index'.n_probe = iop'.n_probe
          /\ index'.centroids = index.centroids
          /\ index'.inverted_lists = index.inverted_lists
          /\ index'.n_clusters = index.n_clusters]_vars

\* The concatenation of lists[p[1]], lists[p[2]], ...
RECURSIVE Concatenation(_, _, _)
Concatenation(lists, p, from) ==
    IF from > Len(p) THEN <<>>
    ELSE lists[p[from]] \o Concatenation(lists, p, from + 1)

\* p names m different clusters, none farther from q than a cluster it
\* leaves out, in ascending order of the distance of their centroids.
ClosestInOrder(p, m, x, q) ==
    LET n == Len(x.centroids)
        d == [j \in 1..n |-> Scale * Scale - dot_product(q, x.centroids[j])]
    IN  /\ \A a, b \in 1..m : a < b => p[a] # p[b] /\ d[p[a]] <= d[p[b]]
        /\ \A a \in 1..m : \A j \in 1..n \ {p[b] : b \in 1..m} : d[p[a]] <= d[j]

\* C31: search_candidates returns the empty list when the index is not
\* built; otherwise the concatenation, in ascending order of centroid
\* distance, of the inverted lists of exactly min(n_probe, C') closest
\* clusters, at least one cluster when n_probe >= 1; with n_probe >= C' it
\* returns every id of the last build exactly once.
C31_SearchProbesClosestClusters ==
    [][iop'.op = "search_candidates" =>
          LET x == index
              n == Len(x.centroids)
              m == IF x.n_probe < n THEN x.n_probe ELSE n
              candidates == iop'.candidates
          IN  /\ x.centroids = <<>> => candidates = <<>>
              /\ x.centroids # <<>> =>
                    /\ \E p \in [1..m -> 1..n] :
                          /\ ClosestInOrder(p, m, x, iop'.query)
                          /\ candidates = Concatenation(x.inverted_lists, p, 1)
                    /\ (iop.built # <<>> /\ x.n_probe >= 1) => m >= 1
                    /\ x.n_probe >= n =>
                          /\ Len(candidates) = Len(iop.built)
                          /\ \A i \in 1..Len(iop.built) :
                                Cardinality({c \in 1..Len(candidates) :
                                    candidates[c] = iop.built[i].id}) = 1]_vars

\* A search that probes one of the two clusters of a built index: it returns
\* some of the ids of the build and not all of them; and a search that
\* probes two of three clusters, the second of them closer than the first.
C31_Witness ==
    /\ iop.op = "search_candidates"
    /\ Len(index.centroids) = 3
    /\ index.n_probe = 2
    /\ iop.candidates # <<>>
    /\ Len(iop.candidates) < Len(iop.built)
    /\ iop.candidates[1] \notin {index.inverted_lists[1][i] :
                                    i \in 1..Len(index.inverted_lists[1])}

(***************************************************************************)
(* The k-means trainer.                                                    *)
(***************************************************************************)
\* The points of data assigned to cluster j.
Members(assignments, j) == {i \in 1..Len(assignments) : assignments[i] = j}

\* c is the component-wise mean of the points in members, to the
\* resolution of the arithmetic.
IsMean(c, data, members) ==
    \A d \in 1..Len(c) :
        LET total == RangeSum([i \in 1..Len(data) |->
                                  IF i \in members THEN data[i][d] ELSE 0],
                              1, Len(data))
            off == total - c[d] * Cardinality(members)
        IN  off < Cardinality(members) /\ -off < Cardinality(members)

\* An iteration of the loop of fit that has run to its end.
Iterated == kmeans.at = "fitting" /\ kmeans'.iter = kmeans.iter + 1

\* C32 as stated: in each Lloyd iteration of KMeans::fit a cluster to which
\* no point was assigned retains its previous centroid unchanged, and the
\* centroid of every non-empty cluster becomes the component-wise mean of
\* its assigned points.
C32_EmptyClusterKeepsCentroid ==
    [][Iterated =>
          \A j \in 1..kmeans.km.n_clusters :
              LET members == Members(kmeans'.assignments, j)
              IN  IF members = {}
                  THEN kmeans'.km.centroids[j] = kmeans.km.centroids[j]
                  ELSE IsMean(kmeans'.km.centroids[j], kmeans.data, members)]_vars

\* What the iteration does: the centroid of a cluster without points
\* becomes the zero vector, the centroid of every other cluster the mean of
\* its points.
C32_EmptyClusterGoesToZero ==
    [][Iterated =>
          \A j \in 1..kmeans.km.n_clusters :
              LET members == Members(kmeans'.assignments, j)
              IN  IF members = {}
                  THEN kmeans'.km.centroids[j] = [d \in 1..Len(kmeans.data[1]) |-> 0]
                  ELSE IsMean(kmeans'.km.centroids[j], kmeans.data, members)]_vars

\* An iteration has left a cluster without points, its centroid at zero,
\* beside a cluster with points.
C32_EmptyClusterReached ==
    /\ kmeans.at = "fitting"
    /\ kmeans.iter = 1
    /\ kmeans.km.n_clusters = 2
    /\ Members(kmeans.assignments, 2) = {}
    /\ kmeans.km.centroids = << <<10, 0>>, <<0, 0>> >>

\* C33 as stated: KMeans::fit on an empty dataset returns normally for
\* every target K and leaves the centroids empty; on a non-empty dataset X
\* it ends with exactly min(K, |X|) centroids after at most max_iter = 50
\* iterations.
C33_FitReturnsWithCentroids ==
    /\ kmeans.at # "panicked"
    /\ kmeans.iter <= 50
    /\ kmeans.at = "returned" =>
          /\ kmeans.data = <<>> => kmeans.km.centroids = <<>>
          /\ kmeans.data # <<>> =>
                Len(kmeans.km.centroids) =
                    IF kmeans.target < Len(kmeans.data) THEN kmeans.target
                    ELSE Len(kmeans.data)

\* What fit does: on a non-empty dataset with K >= 1 it returns, with
\* min(K, |X|) centroids after at most 50 iterations; on an empty dataset,
\* and on any dataset with K = 0, it completes no iteration and does not
\* return (its first iteration panics).
C33_FitOnDataReturnsWithCentroids ==
    /\ kmeans.iter <= 50
    /\ kmeans.at = "panicked" =>
          /\ kmeans.iter = 0
          /\ kmeans.data = <<>> \/ kmeans.target = 0
    /\ (kmeans.at = "fitting" /\ (kmeans.data = <<>> \/ kmeans.target = 0)) =>
          kmeans.iter = 0
    /\ kmeans.at = "returned" =>
          /\ kmeans.data # <<>>
          /\ kmeans.target >= 1
          /\ Len(kmeans.km.centroids) =
                IF kmeans.target < Len(kmeans.data) THEN kmeans.target
                ELSE Len(kmeans.data)

\* fit has returned after all 50 iterations, and after fewer.
C33_ReturnedAtLimit ==
    /\ kmeans.at = "returned"
    /\ kmeans.iter = 50
    /\ Len(kmeans.km.centroids) = 3

C33_ReturnedBeforeLimit ==
    /\ kmeans.at = "returned"
    /\ kmeans.iter < 50

(***************************************************************************)
(* The cache against the store.                                            *)
(***************************************************************************)
\* C34: in every reachable state of the client every collection resident
\* in the cache also exists in the store, after failed saves, failed loads
\* and failed store deletes too.
C34_ResidentIsPersisted ==
    \A name \in DOMAIN cache : name \in DOMAIN files

\* A with_collection_mut whose save has failed, leaving the collection
\* resident over an emptied data.bin.
C34_Witness ==
    /\ ret.op = "with_collection_mut"
    /\ ret.saved
    /\ ~ret.res.ok
    /\ ret.name \in DOMAIN cache
    /\ files[ret.name] = Truncated

\* A delete_collection of a resident collection whose store delete has
\* failed with the files left in place.
C34_FailedDeleteReached ==
    /\ ret.op = "delete_collection"
    /\ ~ret.res.ok
    /\ ret.source = "resident"
    /\ ret.name \in DOMAIN files
    /\ ret.name \notin DOMAIN cache

\* A load that has failed beside a resident collection.
C34_FailedLoadReached ==
    /\ ret.op \in {"get_collection", "with_collection", "with_collection_mut"}
    /\ ~ret.res.ok
    /\ ret.source = "none"
    /\ ret.name \in DOMAIN files
    /\ DOMAIN cache # {}

\* A create_collection whose save has failed.
C34_FailedCreateReached ==
    /\ ret.op = "create_collection"
    /\ ~ret.res.ok
    /\ ret.saved
    /\ ret.name \notin DOMAIN cache

(***************************************************************************)
(* Calls of the collection that return an error.                           *)
(***************************************************************************)
\* An add or update of the collection has returned an error.
Refused == cop'.op \in {"add", "update"} /\ ~cop'.res.ok

\* C35: an add or update call that returns an error (InvalidConfig,
\* DimensionMismatch at any index, VectorNotFound at any index) leaves the
\* collection exactly as it was before the call: the same stored ids,
\* embeddings and metadata, the same modifications_count and needs_rebuild.
C35_RefusedCallChangesNothing ==
    [][Refused => coll' = coll]_vars

\* What a refused call leaves as it was: the configuration, the index,
\* modifications_count, needs_rebuild and batch_mode, and every entry the
\* pairs before the refused one do not name; the pairs before the refused
\* one have been applied.
C35_RefusedCallKeepsBookkeeping ==
    [][Refused =>
          /\ [coll' EXCEPT !.vectors = coll.vectors] = coll
          /\ DOMAIN coll.vectors \subseteq DOMAIN coll'.vectors
          /\ cop'.op = "update" =>
                /\ DOMAIN coll'.vectors = DOMAIN coll.vectors
                /\ \A id \in DOMAIN coll.vectors :
                      /\ coll'.vectors[id].embedding = coll.vectors[id].embedding
                      /\ id \notin {cop'.ids[i] : i \in 1..Len(cop'.ids)} =>
                            coll'.vectors[id] = coll.vectors[id]
                /\ cop'.ids[1] \notin DOMAIN coll.vectors => coll' = coll
          /\ cop'.op = "add" =>
                \A id \in DOMAIN coll.vectors : coll'.vectors[id] = coll.vectors[id]]_vars

\* An add refused at its second vector has stored the first.
C35_PartialAddReached ==
    /\ cop.op = "add"
    /\ ~cop.res.ok
    /\ cop.res.err = "DimensionMismatch"
    /\ count(coll) = 1
    /\ coll.modifications_count = 0

\* An update refused at its second id has merged the metadata of the first.
C35_PartialUpdateReached ==
    /\ cop.op = "update"
    /\ ~cop.res.ok
    /\ cop.res.err = "VectorNotFound"
    /\ cop.ids[1] = 1
    /\ 1 \in DOMAIN coll.vectors
    /\ "tag" \in DOMAIN coll.vectors[1].metadata

(***************************************************************************)
(* The inverted lists against the stored vectors.                          *)
(***************************************************************************)
\* The collection answers queries from its index as it is: an IVF
\* collection with a built index that is not marked for a rebuild, outside
\* a batch.
IndexInUse ==
    /\ coll.config.use_ivf
    /\ coll.ivf_index.some
    /\ coll.ivf_index.v.centroids # <<>>
    /\ ~coll.needs_rebuild
    /\ ~coll.batch_mode

\* C36: in every reachable state of an IVF collection with a built index,
\* needs_rebuild = false and batch_mode = false, the set of ids in the
\* inverted lists equals the set of stored ids, after any sequence of add,
\* delete, update, query, rebuild_index, begin_batch and end_batch calls,
\* successful or failing.
C36_ListsHoldStoredIds ==
    IndexInUse => Listed(coll) = DOMAIN coll.vectors

\* What holds with the failing calls among them: the lists hold no id that
\* is not stored.
C36_ListsHoldOnlyStoredIds ==
    IndexInUse => Listed(coll) \subseteq DOMAIN coll.vectors

\* The calls of SpecOps without the add that is refused at its second
\* vector.
OpsNextAccepted ==
    \/ CBeginBatch
    \/ CEndBatch
    \/ CAdd
    \/ CDelete
    \/ CUpdate
    \/ CRebuildIndex
    \/ CQuery
    \/ CReload

SpecOpsAccepted == InitOps /\ [][OpsNextAccepted]_vars

\* An index in use after adds and deletes and batches: it was rebuilt
\* since.
C36_InUseReached ==
    /\ IndexInUse
    /\ count(coll) = 2
    /\ cop.op = "end_batch"

(***************************************************************************)
(* Reads of resident collections.                                          *)
(***************************************************************************)
\* The step is a with_collection on a collection that was resident.
ResidentRead ==
    /\ Len(log') = Len(log) + 1
    /\ log'[Len(log')].op = "with_collection"
    /\ log'[Len(log')].name \in DOMAIN cache

\* C37: with_collection(name, g) on a collection that is already resident
\* runs g and leaves the whole cache unchanged, the entry's last_access
\* included, so that a collection that is only read through
\* with_collection keeps the last_access of its last load, get_collection
\* or with_collection_mut (and can be the LRU victim although it was the
\* most recently read: C37_Witness).
C37_ResidentReadLeavesCache ==
    [][ResidentRead =>
          /\ cache' = cache
          /\ files' = files
          /\ ret'.res.ok
          /\ ret'.source = "resident"
          /\ ret'.evicted = None
          /\ ret'.runs = <<[ok |-> TRUE,
                           val |-> stats(cache[ret'.name].collection)]>>]_vars

\* Two collections were loaded, the one loaded first was then read through
\* with_collection, and the load of a third has evicted it: the collection
\* read last is the victim, the one accessed before it stays.
C37_Witness ==
    /\ Len(log) = 4
    /\ log[1].name # log[2].name
    /\ log[2].source = "loaded"
    /\ log[3].op = "with_collection"
    /\ log[3].source = "resident"
    /\ log[3].name = log[1].name
    /\ ret.evicted.some
    /\ ret.evicted.v.name = log[3].name
    /\ log[2].name \in DOMAIN cache
    /\ ret.evicted.v.last_access < cache[log[2].name].last_access
    /\ ret.evicted.v.last_access < clock

\* Under threads: the thread that reads a resident collection through
\* with_collection holds a read guard and no thread holds the write guard;
\* the cache is left as it is.
C37_ResidentReadHoldsReadGuard ==
    [][\A t \in Threads :
          (At(t, "with_collection", "reading") /\ thr'[t].pc = "idle") =>
              /\ thr[t].name \in DOMAIN cache
              /\ t \in lock.readers
              /\ lock.writer = 0
              /\ cache' = cache]_vars

(***************************************************************************)
(* Loads under threads.                                                    *)
(***************************************************************************)
\* Thread t has loaded the collection of its call from the store in this
\* step: in get_collection and with_collection the call returns with it,
\* in with_collection_mut the closure comes next.
LoadedBy(t) ==
    /\ thr[t].pc = "locked"
    /\ \/ thr'[t].pc = "idle" /\ ret'.source = "loaded"
       \/ thr'[t].pc = "closure" /\ thr'[t].source = "loaded"

\* C38: in every interleaving of threads a load for name happens only
\* while the exclusive lock is held and name is absent from the map; the
\* in-memory copy of a resident collection is never replaced by a copy
\* loaded from the store (only the closure of a with_collection_mut on it
\* changes it); a thread that missed in with_collection and finds the
\* collection resident under the write guard uses the resident copy; and
\* the map lookup after the load finds the entry.
C38_LoadOnlyWhenAbsent ==
    [][/\ \A t \in Threads :
             LoadedBy(t) =>
                 /\ lock.writer = t
                 /\ lock.readers = {}
                 /\ thr[t].name \notin DOMAIN cache
                 /\ thr[t].name \in DOMAIN cache'
                 /\ cache'[thr[t].name].collection
                        = load_collection(files, thr[t].name).coll
       /\ \A n \in DOMAIN cache \cap DOMAIN cache' :
             cache'[n].collection # cache[n].collection =>
                 \E t \in Threads :
                     /\ At(t, "with_collection_mut", "closure")
                     /\ thr[t].name = n
                     /\ lock.writer = t
       /\ \A t \in Threads :
             (At(t, "with_collection", "locked") /\ thr'[t].pc = "idle") =>
                 /\ ret'.res.ok => thr[t].name \in DOMAIN cache'
                 /\ thr[t].name \in DOMAIN cache =>
                       /\ ret'.source = "resident"
                       /\ cache'[thr[t].name].collection
                              = cache[thr[t].name].collection
                       /\ files' = files]_vars

\* Two threads have missed on the same name in with_collection: one has
\* loaded the collection and returned, the other holds the write guard and
\* finds the collection resident.
C38_Witness ==
    \E t \in Threads :
        /\ At(t, "with_collection", "locked")
        /\ thr[t].name \in DOMAIN cache
        /\ ret.op = "with_collection"
        /\ ret.name = thr[t].name
        /\ ret.source = "loaded"

=============================================================================
